---- MODULE Spec2Model ----
(***************************************************************************)
(* Crossword generator: the SAT encoding of the crossword problem          *)
(* (src/src/wasm/src/encoder.rs), the solver driver (solver.rs), the puzzle *)
(* assembler (solution.rs), the dictionary and its clue extraction         *)
(* (dictionary.rs), the browser interface (lib.rs), the command-line       *)
(* generator (cli/main.rs) and its LaTeX escaping (cli/latex.rs).          *)
(*                                                                         *)
(* A grid cell is (x, y) with x the column and y the row, both from 0.     *)
(* A word is a sequence of one-character strings.  A Boolean variable of   *)
(* the formula is a tuple whose first component names its table in the     *)
(* encoder; a clause is a record [p |-> positive variables, n |-> negated  *)
(* variables]; a model is the set of the variables it makes true.          *)
(***************************************************************************)
EXTENDS Integers, Sequences, FiniteSets, TLC

(***************************************************************************)
(* Small helpers.                                                          *)
(***************************************************************************)
Max2(a, b) == IF a >= b THEN a ELSE b

Min2(a, b) == IF a <= b THEN a ELSE b

Range(s) == {s[i] : i \in DOMAIN s}

RECURSIVE SetToSeq(_)
SetToSeq(S) ==
    IF S = {} THEN <<>>
    ELSE LET e == CHOOSE e \in S : TRUE IN <<e>> \o SetToSeq(S \ {e})

RECURSIVE SumSeq(_)
SumSeq(s) == IF s = <<>> THEN 0 ELSE s[1] + SumSeq(Tail(s))

Cells(size) == {<<x, y>> : x \in 0 .. size - 1, y \in 0 .. size - 1}

(***************************************************************************)
(* Variables of the formula.                                               *)
(***************************************************************************)
\* grid_vars[(x, y, ch)]
GVar(x, y, ch) == <<"g", x, y, ch>>

\* placement_vars[(word, x, y, horizontal)]
PVar(w, x, y, h) == <<"p", w, x, y, h>>

\* is_filled[y][x]
FVar(x, y) == <<"f", x, y>>

\* cc_start_row[y]
RowVar(y) == <<"row", y>>

\* cc_start[y][x]
StartVar(x, y) == <<"s", x, y>>

\* in_cc[y][x][i]
ReachVar(x, y, i) == <<"r", x, y, i>>

\* aux[i][j] of one at_least_k call; id names the call
AuxVar(id, i, j) == <<"a", id, i, j>>

Clause(pos, neg) == [p |-> pos, n |-> neg]

ClauseVars(cl) == cl.p \cup cl.n

\* A clause holds under the model T (the set of true variables).
Holds(cl, T) == (cl.p \cap T /= {}) \/ ~(cl.n \subseteq T)

(***************************************************************************)
(* CrosswordEncoder::encode, family by family.                             *)
(***************************************************************************)
\* chars: the letters of the candidate words
Chars(words) == UNION {Range(w) : w \in words}

GridVars(size, chars) ==
    {GVar(c[1], c[2], ch) : c \in Cells(size), ch \in chars}

CellChars(x, y, chars) == {GVar(x, y, ch) : ch \in chars}

\* at_most_one: pairwise negations
AtMostOne(vars) ==
    {Clause({}, {a, b}) : <<a, b>> \in {pr \in vars \X vars : pr[1] /= pr[2]}}

\* at most one char per cell, except in the last cell
CellClausesButLast(size, chars) ==
    UNION {AtMostOne(CellChars(c[1], c[2], chars)) :
              c \in Cells(size) \ {<<size - 1, size - 1>>}}

\* at most one char per cell
CellClauses(size, chars) ==
    UNION {AtMostOne(CellChars(c[1], c[2], chars)) : c \in Cells(size)}

\* the placement variables minted for one word
WordPlacements(w, size) ==
    {PVar(w, c[1], c[2], TRUE) : c \in {c \in Cells(size) : c[1] + Len(w) <= size}}
    \cup
    {PVar(w, c[1], c[2], FALSE) : c \in {c \in Cells(size) : c[2] + Len(w) <= size}}

PlacementVars(words, size) == UNION {WordPlacements(w, size) : w \in words}

PWord(pv) == pv[2]
PX(pv) == pv[3]
PY(pv) == pv[4]
PHoriz(pv) == pv[5]

\* the cell of letter i (from 0) of a placement
PCell(pv, i) ==
    IF PHoriz(pv) THEN <<PX(pv) + i, PY(pv)>> ELSE <<PX(pv), PY(pv) + i>>

PCells(pv) == {PCell(pv, i) : i \in 0 .. Len(PWord(pv)) - 1}

\* pvar => grid chars match
LetterClauses(pv) ==
    {Clause({GVar(PCell(pv, i)[1], PCell(pv, i)[2], PWord(pv)[i + 1])}, {pv}) :
        i \in 0 .. Len(PWord(pv)) - 1}

\* the in-grid cells just before the start and just after the end
BoundaryCellsBefore(pv, size) ==
    IF PHoriz(pv)
    THEN (IF PX(pv) > 0 THEN {<<PX(pv) - 1, PY(pv)>>} ELSE {})
    ELSE (IF PY(pv) > 0 THEN {<<PX(pv), PY(pv) - 1>>} ELSE {})

BoundaryCells(pv, size) ==
    LET x == PX(pv)
        y == PY(pv)
        len == Len(PWord(pv))
    IN  IF PHoriz(pv)
        THEN (IF x > 0 THEN {<<x - 1, y>>} ELSE {})
             \cup (IF x + len < size THEN {<<x + len, y>>} ELSE {})
        ELSE (IF y > 0 THEN {<<x, y - 1>>} ELSE {})
             \cup (IF y + len < size THEN {<<x, y + len>>} ELSE {})

\* pvar => boundaries empty
BoundaryClauses(pv, size, chars) ==
    {Clause({}, {pv, GVar(c[1], c[2], ch)}) :
        c \in BoundaryCells(pv, size), ch \in chars}

\* the loop over one word, with at most one placement in each direction
WordClausesByDirection(w, size, chars) ==
    UNION {LetterClauses(pv) \cup BoundaryClauses(pv, size, chars) :
              pv \in WordPlacements(w, size)}
    \cup AtMostOne({pv \in WordPlacements(w, size) : PHoriz(pv)})
    \cup AtMostOne({pv \in WordPlacements(w, size) : ~PHoriz(pv)})

\* the loop over one word: its placements' clauses, then at most one placement
WordClauses(w, size, chars) ==
    UNION {LetterClauses(pv) \cup BoundaryClauses(pv, size, chars) :
              pv \in WordPlacements(w, size)}
    \cup AtMostOne(WordPlacements(w, size))

\* the constants of encode and of solve_with_iterations
OrientationMin == 3

DensityFloor == 15

MinWordsFloor == 6

QualityFloor == 20

ReachCap == 20

(***************************************************************************)
(* at_least_k: the sequential counter over the sequence vars.              *)
(* aux[i][j] is Some exactly for i = 0, j = 0 and for 1 <= i <= n,          *)
(* 0 <= j <= min(k, i).                                                     *)
(***************************************************************************)
AuxDefined(i, j, k) == (i = 0 /\ j = 0) \/ (i >= 1 /\ j >= 0 /\ j <= Min2(k, i))

AuxVars(id, n, k) ==
    {AuxVar(id, 0, 0)}
    \cup {AuxVar(id, i, j) : <<i, j>> \in {ij \in (1 .. n) \X (0 .. k) : ij[2] <= ij[1]}}

\* the clauses of aux[i][j] in one direction only: aux[i][j] implies its cause
CounterCellOneWay(vars, k, id, i, j) ==
    LET x == vars[i]
        v == AuxVar(id, i, j)
    IN  IF j = 0
        THEN {Clause({v}, {})}
        ELSE IF j <= i - 1
        THEN { Clause({AuxVar(id, i - 1, j), AuxVar(id, i - 1, j - 1)}, {v}),
               Clause({AuxVar(id, i - 1, j), x}, {v}) }
        ELSE { Clause({AuxVar(id, i - 1, j - 1)}, {v}), Clause({x}, {v}) }

\* the clauses emitted for aux[i][j], 1 <= i <= n, 0 <= j <= min(k, i)
CounterCell(vars, k, id, i, j) ==
    LET x == vars[i]
        v == AuxVar(id, i, j)
    IN  IF j = 0
        THEN {Clause({v}, {})}
        ELSE IF j <= i - 1 /\ j - 1 < i - 1
        THEN IF AuxDefined(i - 1, j, k) /\ AuxDefined(i - 1, j - 1, k)
             THEN LET prev_j == AuxVar(id, i - 1, j)
                      prev_jm1 == AuxVar(id, i - 1, j - 1)
                  IN  { Clause({prev_j, prev_jm1}, {v}),
                        Clause({prev_j, x}, {v}),
                        Clause({x, v}, {prev_j}),
                        Clause({v}, {prev_jm1, x}) }
             ELSE IF AuxDefined(i - 1, j, k)
             THEN LET prev_j == AuxVar(id, i - 1, j)
                  IN  { Clause({prev_j}, {v}), Clause({v}, {prev_j}) }
             ELSE {}
        ELSE IF j = i
        THEN IF AuxDefined(i - 1, j - 1, k)
             THEN LET prev == AuxVar(id, i - 1, j - 1)
                  IN  { Clause({prev}, {v}),
                        Clause({x}, {v}),
                        Clause({v}, {prev, x}) }
             ELSE {}
        ELSE {}

AtLeastK(vars, k, id) ==
    LET n == Len(vars)
    IN  IF k = 0 \/ k > n THEN {}
        ELSE IF k = 1 THEN {Clause(Range(vars), {})}
        ELSE {Clause({AuxVar(id, 0, 0)}, {})}
             \cup UNION {CounterCell(vars, k, id, ij[1], ij[2]) :
                            ij \in {ij \in (1 .. n) \X (0 .. k) : ij[2] <= ij[1]}}
             \cup (IF AuxDefined(n, k, k) THEN {Clause({AuxVar(id, n, k)}, {})} ELSE {})

\* the auxiliary variables one at_least_k call mints
AtLeastKVars(vars, k, id) ==
    IF k = 0 \/ k > Len(vars) \/ k = 1 THEN {} ELSE AuxVars(id, Len(vars), k)

(***************************************************************************)
(* encode, continued.                                                      *)
(***************************************************************************)
HorizPlacements(words, size) == {pv \in PlacementVars(words, size) : PHoriz(pv)}

VertPlacements(words, size) == {pv \in PlacementVars(words, size) : ~PHoriz(pv)}

\* the at_least_k calls that strengthen the requirement to three of each
OrientationCalls(words, size) ==
    LET horiz == SetToSeq(HorizPlacements(words, size))
        vert == SetToSeq(VertPlacements(words, size))
    IN  (IF Len(horiz) >= OrientationMin
         THEN {[id |-> "horiz", vars |-> horiz, k |-> OrientationMin]} ELSE {})
        \cup (IF Len(vert) >= OrientationMin
              THEN {[id |-> "vert", vars |-> vert, k |-> OrientationMin]} ELSE {})

\* require at least one horizontal and one vertical word; strengthen to three
OrientationClauses(words, size) ==
    LET horiz == SetToSeq(HorizPlacements(words, size))
        vert == SetToSeq(VertPlacements(words, size))
    IN  (IF horiz /= <<>> THEN {Clause(Range(horiz), {})} ELSE {})
        \cup (IF vert /= <<>> THEN {Clause(Range(vert), {})} ELSE {})
        \cup UNION {AtLeastK(c.vars, c.k, c.id) : c \in OrientationCalls(words, size)}

\* the placements that cover (x, y) with the character ch
Covering(x, y, ch, pvars) ==
    {pv \in pvars :
        \E i \in 0 .. Len(PWord(pv)) - 1 :
            PWord(pv)[i + 1] = ch /\ PCell(pv, i) = <<x, y>>}

\* grid chars can only be set by placements
BidirectionalClauses(words, size, chars) ==
    LET pvars == PlacementVars(words, size)
    IN  {LET covering == Covering(g[2], g[3], g[4], pvars)
         IN  IF covering /= {} THEN Clause(covering, {g}) ELSE Clause({}, {g}) :
            g \in GridVars(size, chars)}

\* possible_placements[y][x][0 or 1]
PossiblePlacements(words, size, x, y, horizontal) ==
    {pv \in PlacementVars(words, size) :
        PX(pv) = x /\ PY(pv) = y /\ PHoriz(pv) = horizontal}

\* add_sequence_constraint
SequenceConstraint(x, y, horizontal, chars, placements) ==
    LET curr_chars == CellChars(x, y, chars)
        next == IF horizontal THEN <<x + 1, y>> ELSE <<x, y + 1>>
        next_chars == CellChars(next[1], next[2], chars)
        prev_chars ==
            IF (horizontal /\ x > 0) \/ (~horizontal /\ y > 0)
            THEN LET prev == IF horizontal THEN <<x - 1, y>> ELSE <<x, y - 1>>
                 IN  CellChars(prev[1], prev[2], chars)
            ELSE {}
    IN  {Clause(placements \cup prev_chars, {cn[1], cn[2]}) :
            cn \in curr_chars \X next_chars}

\* sequence validation at every position, but not down the last column
SequenceClausesButLastColumn(words, size, chars) ==
    UNION {(IF c[1] + 1 < size
            THEN SequenceConstraint(c[1], c[2], TRUE, chars,
                     PossiblePlacements(words, size, c[1], c[2], TRUE))
            ELSE {})
           \cup
           (IF c[2] + 1 < size /\ c[1] + 1 < size
            THEN SequenceConstraint(c[1], c[2], FALSE, chars,
                     PossiblePlacements(words, size, c[1], c[2], FALSE))
            ELSE {}) : c \in Cells(size)}

\* sequence validation at every position
SequenceClauses(words, size, chars) ==
    UNION {(IF c[1] + 1 < size
            THEN SequenceConstraint(c[1], c[2], TRUE, chars,
                     PossiblePlacements(words, size, c[1], c[2], TRUE))
            ELSE {})
           \cup
           (IF c[2] + 1 < size
            THEN SequenceConstraint(c[1], c[2], FALSE, chars,
                     PossiblePlacements(words, size, c[1], c[2], FALSE))
            ELSE {}) : c \in Cells(size)}

(***************************************************************************)
(* add_connectivity_constraint.                                            *)
(***************************************************************************)
MaxDist(size) == ((size + 1) * (size + 1)) \div 2 - 1

\* the propagation stopped one step early
FinalDistShort(size) == Min2(MaxDist(size), ReachCap) - 1

FinalDist(size) == Min2(MaxDist(size), ReachCap)

\* filled <=> at least one char, but only filled => at least one char in the
\* last cell
FilledClausesButLast(size, chars) ==
    UNION {LET cell_chars == CellChars(c[1], c[2], chars)
               filled_var == FVar(c[1], c[2])
           IN  IF cell_chars /= {}
               THEN {Clause(cell_chars, {filled_var})}
                    \cup {Clause({filled_var}, {cv}) :
                             cv \in IF c = <<size - 1, size - 1>> THEN {} ELSE cell_chars}
               ELSE {Clause({}, {filled_var})} : c \in Cells(size)}

\* filled <=> at least one char
FilledClauses(size, chars) ==
    UNION {LET cell_chars == CellChars(c[1], c[2], chars)
               filled_var == FVar(c[1], c[2])
           IN  IF cell_chars /= {}
               THEN {Clause(cell_chars, {filled_var})}
                    \cup {Clause({filled_var}, {cv}) : cv \in cell_chars}
               ELSE {Clause({}, {filled_var})} : c \in Cells(size)}

\* CC start selection, row part
StartRowClauses(size) ==
    UNION {{Clause({}, {RowVar(y), RowVar(py)}) : py \in 0 .. y - 1}
           \cup {Clause({FVar(x, y) : x \in 0 .. size - 1}, {RowVar(y)})} :
              y \in 0 .. size - 1}

\* CC start selection, cell part
StartCellClauses(size) ==
    UNION {LET x == c[1]
               y == c[2]
           IN  { Clause({RowVar(y)}, {StartVar(x, y)}),
                 Clause({FVar(x, y)}, {StartVar(x, y)}) }
               \cup {Clause({}, {StartVar(x, y), StartVar(px, y)}) : px \in 0 .. x - 1}
               \cup { Clause({ReachVar(x, y, 0)}, {StartVar(x, y)}),
                      Clause({StartVar(x, y)}, {ReachVar(x, y, 0)}) } :
              c \in Cells(size)}

\* the neighbours pushed as reasons
Neighbours(x, y, size) ==
    (IF x > 0 THEN {<<x - 1, y>>} ELSE {})
    \cup (IF x + 1 < size THEN {<<x + 1, y>>} ELSE {})
    \cup (IF y > 0 THEN {<<x, y - 1>>} ELSE {})
    \cup (IF y + 1 < size THEN {<<x, y + 1>>} ELSE {})

\* reachability propagation for one cell and one step i >= 1
ReachStep(x, y, i, size) ==
    { Clause({FVar(x, y)}, {ReachVar(x, y, i)}),
      Clause({ReachVar(x, y, i - 1)}
             \cup {ReachVar(nb[1], nb[2], i - 1) : nb \in Neighbours(x, y, size)},
             {ReachVar(x, y, i)}) }

ReachClauses(size) ==
    UNION {ReachStep(c[1], c[2], i, size) :
              c \in Cells(size), i \in 1 .. FinalDist(size)}

\* all filled cells must reach the CC start
CoverageClausesNone(size) == {}

CoverageClauses(size) ==
    {Clause({ReachVar(c[1], c[2], FinalDist(size))}, {FVar(c[1], c[2])}) :
        c \in Cells(size)}

ConnectivityClauses(size, chars) ==
    FilledClauses(size, chars) \cup StartRowClauses(size)
    \cup StartCellClauses(size) \cup ReachClauses(size) \cup CoverageClauses(size)

\* is_filled, flattened row by row
FilledVars(size) ==
    [k \in 1 .. size * size |-> FVar((k - 1) % size, (k - 1) \div size)]

(***************************************************************************)
(* Density and quality constraints, and the whole formula.                 *)
(***************************************************************************)
MinFilledCells(size) == Max2((size * size * 5) \div 10, DensityFloor)

\* the density call: at least min_filled_cells of the filled variables
DensityCalls(size) ==
    IF size * size > 0
    THEN {[id |-> "density", vars |-> FilledVars(size), k |-> MinFilledCells(size)]}
    ELSE {}

DensityClauses(size) ==
    UNION {AtLeastK(c.vars, c.k, c.id) : c \in DensityCalls(size)}

MinWords(min_quality) == Max2(min_quality \div 10, MinWordsFloor)

\* the quality call: at least min_words of all placement variables
QualityCalls(words, size, min_quality) ==
    LET all_placements == SetToSeq(PlacementVars(words, size))
    IN  IF min_quality > 0 /\ all_placements /= <<>>
        THEN {[id |-> "quality", vars |-> all_placements, k |-> MinWords(min_quality)]}
        ELSE {}

QualityClauses(words, size, min_quality) ==
    UNION {AtLeastK(c.vars, c.k, c.id) : c \in QualityCalls(words, size, min_quality)}

\* CrosswordEncoder::encode: the clauses of the finished formula
Encode(words, size, min_quality) ==
    LET chars == Chars(words)
    IN  CellClauses(size, chars)
        \cup UNION {WordClauses(w, size, chars) : w \in words}
        \cup OrientationClauses(words, size)
        \cup BidirectionalClauses(words, size, chars)
        \cup SequenceClauses(words, size, chars)
        \cup ConnectivityClauses(size, chars)
        \cup DensityClauses(size)
        \cup QualityClauses(words, size, min_quality)

\* solve_with_iterations: the quality target handed to encode
TargetQuality(size) == Max2((size * size * 4) \div 10, QualityFloor)

\* every at_least_k call of encode that goes through the sequential counter
CounterCalls(words, size, min_quality) ==
    OrientationCalls(words, size) \cup DensityCalls(size)
    \cup QualityCalls(words, size, min_quality)

(***************************************************************************)
(* The SAT backend (varisat), by its contract: solve() answers true with a *)
(* model that satisfies every clause, or false when no assignment does.    *)
(* Models(words, size, min_quality) is the set of the models of the        *)
(* encoded formula.  It is computed by extending partial assignments one   *)
(* variable at a time, cell by cell in row-major order, and dropping a     *)
(* partial assignment as soon as a clause whose variables are all assigned *)
(* is false under it, or as soon as it has left more cells unfilled than   *)
(* the density counter (when encode emits it) can accept.  The             *)
(* counter variables are forced by the counter's equivalences; the         *)
(* reachability variables in_cc[..][i], i >= 1, are only bounded from      *)
(* above by their clauses, and the model takes them at their greatest      *)
(* value.  Every model returned is checked against every clause.           *)
(***************************************************************************)
SetMax(S) == CHOOSE m \in S : \A e \in S : e <= m

IsPrimary(v) == v[1] \in {"g", "f", "p"}

\* the cell at which a grid, filled or placement variable is decided
CellKey(v, size) ==
    IF v[1] = "p" THEN PY(v) * size + PX(v) ELSE v[3] * size + v[2]

\* the density counter, when encode emits it, needs c.k true filled variables:
\* a partial assignment that has decided cells 0 .. k and left too many of
\* them unfilled cannot be extended to a model
DensityPossible(T, k, calls) ==
    \A c \in calls :
        (c.id = "density" /\ AtLeastKVars(c.vars, c.k, c.id) /= {}) =>
            Cardinality({m \in 1 .. k + 1 : c.vars[m] \notin T}) <= Len(c.vars) - c.k

\* the variables decided at cell k (row-major from 0), in order
CellVarSeq(k, words, size, chars) ==
    LET x == k % size
        y == k \div size
    IN  SetToSeq(CellChars(x, y, chars)) \o <<FVar(x, y)>>
        \o SetToSeq(PossiblePlacements(words, size, x, y, TRUE)
                    \cup PossiblePlacements(words, size, x, y, FALSE))

Satisfies(T, clauses) == \A cl \in clauses : Holds(cl, T)

\* one more variable: both values, kept when the clauses it completes hold
\* (prefixes is a sequence of distinct partial assignments)
StepVar(prefixes, v, ready) ==
    SelectSeq(prefixes, LAMBDA T : Satisfies(T, ready))
    \o SelectSeq([i \in DOMAIN prefixes |-> prefixes[i] \cup {v}],
                 LAMBDA T : Satisfies(T, ready))

RECURSIVE ExtendVars(_, _, _, _)
ExtendVars(prefixes, vars, j, tagged) ==
    IF j > Len(vars) \/ prefixes = <<>> THEN prefixes
    ELSE ExtendVars(StepVar(prefixes, vars[j], {t[2] : t \in {t \in tagged : t[1] = j}}),
                    vars, j + 1, tagged)

\* the clauses tagged with the index in vars of their last variable
TagByLast(clauses, vars) ==
    {<<SetMax({0} \cup {j \in 1 .. Len(vars) : vars[j] \in ClauseVars(cl)}), cl>> :
        cl \in clauses}

RECURSIVE ExtendCells(_, _, _, _, _, _, _)
ExtendCells(prefixes, k, keyed, words, size, chars, calls) ==
    IF k >= size * size \/ prefixes = <<>> THEN prefixes
    ELSE LET vars == CellVarSeq(k, words, size, chars)
             here == {t[2] : t \in {t \in keyed : t[1] = k}}
         IN  ExtendCells(
                 SelectSeq(ExtendVars(prefixes, vars, 1, TagByLast(here, vars)),
                           LAMBDA T : DensityPossible(T, k, calls)),
                 k + 1, keyed, words, size, chars, calls)

\* the assignments to the grid, filled and placement variables that satisfy
\* every clause of F over these variables alone and can still meet the density
PrimaryModels(F, words, size, chars, calls) ==
    LET primary == {cl \in F : \A v \in ClauseVars(cl) : IsPrimary(v)}
        keyed == {<<SetMax({-1} \cup {CellKey(v, size) : v \in ClauseVars(cl)}), cl>> :
                     cl \in primary}
    IN  IF \E t \in keyed : t[1] = -1 /\ ~Holds(t[2], {}) THEN {}
        ELSE Range(ExtendCells(<<{}>>, 0, keyed, words, size, chars, calls))

HasTag(cl, tags) == \E v \in ClauseVars(cl) : v[1] \in tags

\* aux[i][j] is true exactly when at least j of the first i inputs are true
CounterAux(T, c) ==
    IF AtLeastKVars(c.vars, c.k, c.id) = {} THEN {}
    ELSE {AuxVar(c.id, 0, 0)}
         \cup {AuxVar(c.id, ij[1], ij[2]) :
                  ij \in {ij \in (1 .. Len(c.vars)) \X (0 .. c.k) :
                             /\ ij[2] <= ij[1]
                             /\ Cardinality({m \in 1 .. ij[1] : c.vars[m] \in T}) >= ij[2]}}

\* the primary models extended by the counters, kept when the counter clauses hold
CounterModels(F, PM, calls) ==
    LET clauses == {cl \in F : HasTag(cl, {"a"}) /\ ~HasTag(cl, {"row", "s", "r"})}
    IN  {T2 \in {T \cup UNION {CounterAux(T, c) : c \in calls} : T \in PM} :
            Satisfies(T2, clauses)}

\* cc_start_row, then cc_start, row by row
StartVarSeq(size) ==
    [k \in 1 .. size |-> RowVar(k - 1)]
    \o [k \in 1 .. size * size |-> StartVar((k - 1) % size, (k - 1) \div size)]

\* every choice of the start variables the start-selection clauses allow
StartModels(F, CM, size) ==
    LET clauses == {cl \in F : HasTag(cl, {"row", "s"}) /\ ~HasTag(cl, {"r"})}
        vars == StartVarSeq(size)
        tagged == TagByLast(clauses, vars)
    IN  UNION {Range(ExtendVars(<<T>>, vars, 1, tagged)) : T \in CM}

\* in_cc[..][i] at its greatest: filled, and in or next to the cells of step i - 1
ReachStepSet(T, size, i, before) ==
    IF i = 0
    THEN {c \in Cells(size) : StartVar(c[1], c[2]) \in T}
    ELSE {c \in Cells(size) :
             /\ FVar(c[1], c[2]) \in T
             /\ (c \in before \/ Neighbours(c[1], c[2], size) \cap before /= {})}

RECURSIVE ReachAux(_, _, _, _)
ReachAux(T, size, i, before) ==
    IF i > FinalDist(size) THEN {}
    ELSE UNION {{ReachVar(c[1], c[2], i) : c \in now} \cup ReachAux(T, size, i + 1, now) :
                   now \in {ReachStepSet(T, size, i, before)}}

\* the start models extended by reachability, kept when its clauses hold
ReachModels(F, SM, size) ==
    LET clauses == {cl \in F : HasTag(cl, {"r"})}
    IN  {T2 \in {T \cup ReachAux(T, size, 0, {}) : T \in SM} : Satisfies(T2, clauses)}

\* all models of the formula F over the variables of words, chars and calls
ModelsOf(F, words, size, chars, calls) ==
    ReachModels(F,
        StartModels(F,
            CounterModels(F, PrimaryModels(F, words, size, chars, calls), calls),
            size),
        size)

\* all models of the formula encode builds
Models(words, size, min_quality) ==
    ModelsOf(Encode(words, size, min_quality), words, size, Chars(words),
             CounterCalls(words, size, min_quality))

(***************************************************************************)
(* extract_placements and the result of solve_with_iterations.             *)
(***************************************************************************)
None == <<>>

Some(v) == <<v>>

Placement(w, x, y, h) == [word |-> w, x |-> x, y |-> y, horizontal |-> h]

\* the placements whose variable is true in the model
PlacedSet(m, words, size) ==
    {Placement(PWord(pv), PX(pv), PY(pv), PHoriz(pv)) :
        pv \in {pv \in PlacementVars(words, size) : pv \in m}}

Reverse(s) == [i \in 1 .. Len(s) |-> s[Len(s) + 1 - i]]

Rotate(s, k) == [i \in 1 .. Len(s) |-> s[((i + k - 1) % Len(s)) + 1]]

\* placement_vars is a HashMap and its iteration order is unspecified: the
\* vector may come out in any order; the orders kept here are the rotations
\* of one order and of its reverse
IterationOrders(S) ==
    IF S = {} THEN {<<>>}
    ELSE LET s == SetToSeq(S)
         IN  {Rotate(s, k) : k \in 0 .. Len(s) - 1}
             \cup {Rotate(Reverse(s), k) : k \in 0 .. Len(s) - 1}

\* extract_placements: the vectors it may return (its validation pass over the
\* grid variables only logs)
ExtractPlacements(m, words, size) == IterationOrders(PlacedSet(m, words, size))

SolveResultAlwaysOk(extracted) == "Ok"

\* solve_with_iterations, Ok(true) branch: the result for the extracted vector
SolveResult(extracted) ==
    IF extracted = <<>> THEN "NoPlacements" ELSE "Ok"

(***************************************************************************)
(* CrosswordPuzzle::from_placements.                                       *)
(***************************************************************************)
\* the cell of letter i (from 0) of a placement record
PlacementCell(pl, i) ==
    IF pl.horizontal THEN <<pl.x + i, pl.y>> ELSE <<pl.x, pl.y + i>>

PlacementCells(pl) == {PlacementCell(pl, i) : i \in 0 .. Len(pl.word) - 1}

\* grid[y][x] = Some(ch) for every letter of one placement
WritePlacement(grid, pl) ==
    [c \in DOMAIN grid |->
        IF c \in PlacementCells(pl)
        THEN Some(pl.word[(CHOOSE i \in 0 .. Len(pl.word) - 1 : PlacementCell(pl, i) = c) + 1])
        ELSE grid[c]]

RECURSIVE WriteAll(_, _, _)
WriteAll(grid, placements, k) ==
    IF k > Len(placements) THEN grid
    ELSE WriteAll(WritePlacement(grid, placements[k]), placements, k + 1)

\* the grid: every placement written in order, later letters over earlier ones
GridOf(placements, size) ==
    WriteAll([c \in Cells(size) |-> None], placements, 1)

IsSome(grid, x, y) == grid[<<x, y>>] /= None

StartsAcross(grid, size, x, y) ==
    /\ (x = 0 \/ ~IsSome(grid, x - 1, y))
    /\ x + 1 < size
    /\ IsSome(grid, x + 1, y)

StartsDownAnyLength(grid, size, x, y) ==
    y = 0 \/ ~IsSome(grid, x, y - 1)

StartsDown(grid, size, x, y) ==
    /\ (y = 0 \/ ~IsSome(grid, x, y - 1))
    /\ y + 1 < size
    /\ IsSome(grid, x, y + 1)

\* the numbering scan, cell k in row-major order
RECURSIVE NumberScan(_, _, _, _, _)
NumberScan(grid, size, k, current_number, cell_numbers) ==
    IF k >= size * size THEN cell_numbers
    ELSE LET x == k % size
             y == k \div size
             numbered == /\ IsSome(grid, x, y)
                         /\ (StartsAcross(grid, size, x, y) \/ StartsDown(grid, size, x, y))
         IN  IF numbered
             THEN NumberScan(grid, size, k + 1, current_number + 1,
                             [cell_numbers EXCEPT ![<<x, y>>] = current_number])
             ELSE NumberScan(grid, size, k + 1, current_number, cell_numbers)

\* cell_numbers: 0 for a cell without a number
CellNumbers(grid, size) ==
    NumberScan(grid, size, 0, 1, [c \in Cells(size) |-> 0])

\* the Clue of one placement (the clue text is not modelled)
ClueOf(pl, cell_numbers) ==
    [number |-> cell_numbers[<<pl.x, pl.y>>], word |-> pl.word, x |-> pl.x, y |-> pl.y]

AcrossPlacements(placements) == SelectSeq(placements, LAMBDA pl : pl.horizontal)

DownPlacementsNone(placements) == <<>>

DownPlacements(placements) == SelectSeq(placements, LAMBDA pl : ~pl.horizontal)

\* sort_by_key(|c| c.number): a stable sort
SortInsert(sorted, c) ==
    LET k == Cardinality({i \in 1 .. Len(sorted) : sorted[i].number <= c.number})
    IN  SubSeq(sorted, 1, k) \o <<c>> \o SubSeq(sorted, k + 1, Len(sorted))

RECURSIVE SortFrom(_, _, _)
SortFrom(sorted, clues, k) ==
    IF k > Len(clues) THEN sorted
    ELSE SortFrom(SortInsert(sorted, clues[k]), clues, k + 1)

\* the clues left in the order of the placements
SortByNothing(clues) == clues

SortByNumber(clues) == SortFrom(<<>>, clues, 1)

CluesOf(placements, cell_numbers) ==
    SortByNumber([i \in 1 .. Len(placements) |-> ClueOf(placements[i], cell_numbers)])

\* filled_cells: the set of the cells the placements cover
FilledCellsAcross(placements) ==
    UNION {PlacementCells(placements[i]) :
              i \in {i \in 1 .. Len(placements) : placements[i].horizontal}}

FilledCells(placements) ==
    UNION {PlacementCells(placements[i]) : i \in 1 .. Len(placements)}

\* a as f32 / b as f32 for integers 0 <= a <= b, b > 0: the correctly rounded
\* single-precision quotient, as [m, e] standing for m / 2^e with
\* 2^23 <= m < 2^24 (or m = 0): binary long division to 24 bits, then
\* rounding to nearest, ties to even
RECURSIVE F32Bits(_, _, _, _)
F32Bits(q, r, b, e) ==
    IF q >= 2^23
    THEN LET up == (2 * r > b) \/ (2 * r = b /\ q % 2 = 1)
             m == IF up THEN q + 1 ELSE q
         IN  IF m = 2^24 THEN [m |-> 2^23, e |-> e - 1] ELSE [m |-> m, e |-> e]
    ELSE IF 2 * r >= b
         THEN F32Bits(2 * q + 1, 2 * r - b, b, e + 1)
         ELSE F32Bits(2 * q, 2 * r, b, e + 1)

F32Div(a, b) ==
    IF a = 0 THEN [m |-> 0, e |-> 0] ELSE F32Bits(a \div b, a % b, b, 0)

TotalLetters(placements) ==
    SumSeq([i \in 1 .. Len(placements) |-> Len(placements[i].word)])

\* CrosswordMetadata (generation_time_ms, a clock reading, is left out)
MetadataOf(placements, size) ==
    [density |-> F32Div(Cardinality(FilledCells(placements)), size * size),
     word_count |-> Len(placements),
     total_letters |-> TotalLetters(placements)]

\* from_placements: the puzzle built from a vector of in-grid placements
FromPlacements(placements, size) ==
    LET grid == GridOf(placements, size)
        cell_numbers == CellNumbers(grid, size)
    IN  [grid |-> grid,
         across_clues |-> CluesOf(AcrossPlacements(placements), cell_numbers),
         down_clues |-> CluesOf(DownPlacements(placements), cell_numbers),
         metadata |-> MetadataOf(placements, size)]

(***************************************************************************)
(* LatexGenerator::generate_grid: the numbers printed in the cells.        *)
(***************************************************************************)
RECURSIVE LatexScan(_, _, _, _, _)
LatexScan(grid, size, k, next_number, numbers) ==
    IF k >= size * size THEN numbers
    ELSE LET col == k % size
             row == k \div size
             starts_across == col = 0 \/ ~IsSome(grid, col - 1, row)
             has_across == col < size - 1 /\ IsSome(grid, col + 1, row)
             starts_down == row = 0 \/ ~IsSome(grid, col, row - 1)
             has_down == row < size - 1 /\ IsSome(grid, col, row + 1)
         IN  IF /\ IsSome(grid, col, row)
                /\ ((starts_across /\ has_across) \/ (starts_down /\ has_down))
             THEN LatexScan(grid, size, k + 1, next_number + 1,
                            [numbers EXCEPT ![<<col, row>>] = Some(next_number)])
             ELSE LatexScan(grid, size, k + 1, next_number, numbers)

\* numbers: None for a cell without a number
LatexNumbers(grid, size) ==
    LatexScan(grid, size, 0, 1, [c \in Cells(size) |-> None])

(***************************************************************************)
(* generate_crossword (cli/main.rs): the word selection.                   *)
(***************************************************************************)
\* Filter suitable words
Suitable(all_words, size) == {w \in all_words : Len(w) >= 3 /\ Len(w) <= size}

MaxWords(size) ==
    IF size <= 8 THEN 80
    ELSE IF size <= 10 THEN 120
    ELSE IF size <= 12 THEN 150
    ELSE IF size <= 15 THEN 130
    ELSE 100

\* proportion 0.70 for every length
ProportionFlat(len) == 70

\* proportion, in hundredths
Proportion(len) == IF len <= 5 THEN 70 ELSE IF len <= 8 THEN 25 ELSE 5

\* count = ((max_words as f32 * proportion) / 4.0) as usize
TakeCount(size, len) == (MaxWords(size) * Proportion(len)) \div 400

\* the sets of k elements of S
RECURSIVE Choices(_, _)
Choices(S, k) ==
    IF k = 0 THEN {{}}
    ELSE UNION {{c \cup {x} : x \in S \ c} : c \in Choices(S, k - 1)}

\* the first k words of a shuffled group: any k of its words
Shuffled(S, k) ==
    IF 2 * k > Cardinality(S)
    THEN {S \ c : c \in Choices(S, Cardinality(S) - k)}
    ELSE Choices(S, k)

\* the loop over the lengths: the shuffled group gives any count.max(8) of its
\* words; the loop stops at max_words and truncate cuts the last group
RECURSIVE SelectLoop(_, _, _, _)
SelectLoop(len, kept, all_words, size) ==
    IF len > Min2(size, 15) \/ Cardinality(kept) >= MaxWords(size) THEN {kept}
    ELSE LET len_words == {w \in Suitable(all_words, size) : Len(w) = len}
             take == Min2(Min2(Cardinality(len_words), Max2(TakeCount(size, len), 8)),
                          MaxWords(size) - Cardinality(kept))
         IN  UNION {SelectLoop(len + 1, kept \cup chosen, all_words, size) :
                       chosen \in Shuffled(len_words, take)}

\* the candidate word sets generate_crossword may hand to the solver
SelectWords(all_words, size) == SelectLoop(3, {}, all_words, size)

(***************************************************************************)
(* The dictionaries and grid sizes explored.                               *)
(* A word is a sequence of upper-case letters, as the dictionary keeps     *)
(* them; the code reads nothing of a word but its letters.                 *)
(***************************************************************************)
BAT == <<"B", "A", "T">>
ORE == <<"O", "R", "E">>
WED == <<"W", "E", "D">>
BOW == <<"B", "O", "W">>
ARE == <<"A", "R", "E">>
TED == <<"T", "E", "D">>
TEA == <<"T", "E", "A">>
CAT == <<"C", "A", "T">>
CAR == <<"C", "A", "R">>
TAR == <<"T", "A", "R">>
CATS == <<"C", "A", "T", "S">>
BATS == <<"B", "A", "T", "S">>
EASB == <<"E", "A", "S", "B">>
TECA == <<"T", "E", "C", "A">>
SBET == <<"S", "B", "E", "T">>
ETSC == <<"E", "T", "S", "C">>
AEBA == <<"A", "E", "B", "A">>
SCET == <<"S", "C", "E", "T">>
ELEPHANT == <<"E", "L", "E", "P", "H", "A", "N", "T">>

\* rows BAT, ORE, WED with columns BOW, ARE, TED fill a 3 x 3 grid
SquareWords == {BAT, ORE, WED, BOW, ARE, TED, TEA, ELEPHANT}

\* rows EASB, TECA, SBET, CATS with columns ETSC, AEBA, SCET, BATS fill a
\* 4 x 4 grid; CAT and BAT leave its last cell empty
FourWords == {CAT, BAT, CATS, BATS, EASB, TECA, SBET, ETSC, AEBA, SCET}

\* five words that fit a 3 x 3 grid: fewer than the six that three across
\* and three down entries take
FewWords == {BAT, ORE, WED, BOW, ARE}

Instances ==
    { [all_words |-> SquareWords, size |-> 3],
      [all_words |-> FewWords, size |-> 3],
      [all_words |-> FourWords, size |-> 4],
      [all_words |-> {ELEPHANT}, size |-> 4],
      [all_words |-> {ELEPHANT}, size |-> 3] }

\* the solver's answers for every formula generate_crossword can build
Problems ==
    UNION {{[words |-> ws, size |-> i.size] : ws \in SelectWords(i.all_words, i.size)} :
              i \in Instances}

ModelTable == [pr \in Problems |-> Models(pr.words, pr.size, TargetQuality(pr.size))]

\* the connectivity clauses on their own: every model of the formula encode
\* builds satisfies, in particular, the clauses of add_connectivity_constraint,
\* so what holds in every model of these clauses alone holds in every model
\* of the whole formula
ConnGrid == [size |-> 3, chars |-> {"A"}]

ConnModels ==
    ModelsOf(ConnectivityClauses(ConnGrid.size, ConnGrid.chars), {},
             ConnGrid.size, ConnGrid.chars, {})

\* the reachability cap at work: a 9 x 9 grid, the least on which a connected
\* region can need more than ReachCap steps from whatever cell is its anchor
CapGrid == [size |-> 9, chars |-> {"A"}]

\* the k-th cell, from 1 to 49, of the path that runs along the rows 0, 2, 4,
\* 6 and 8 and joins them at alternating ends
SnakeCell(k) ==
    LET block == (k - 1) \div 10
        r == (k - 1) % 10
    IN  IF r = 9
        THEN <<IF block % 2 = 0 THEN 8 ELSE 0, 2 * block + 1>>
        ELSE <<IF block % 2 = 0 THEN r ELSE 8 - r, 2 * block>>

SnakePrefix(len) == {SnakeCell(k) : k \in 1 .. len}

\* the filled regions tried: paths of 1 to 49 cells, and paths with a cell
\* taken out, which leaves two components
CapRegions ==
    {SnakePrefix(len) : len \in {1, 2, 21, 41, 42, 49}}
    \cup {SnakePrefix(lm[1]) \ {SnakeCell(lm[2])} :
             lm \in {<<3, 2>>, <<41, 21>>, <<49, 25>>}}
    \cup {{SnakeCell(1), SnakeCell(49)}}

\* the letters and the filled variables of a region
RegionVars(region) ==
    {GVar(c[1], c[2], "A") : c \in region} \cup {FVar(c[1], c[2]) : c \in region}

\* the models of the clauses F of add_connectivity_constraint in which
\* exactly the cells of the region are filled
CapModels(F, region) ==
    LET primary == {cl \in F : \A v \in ClauseVars(cl) : IsPrimary(v)}
        T == RegionVars(region)
    IN  IF Satisfies(T, primary)
        THEN {T2 : T2 \in ReachModels(F, StartModels(F, {T}, CapGrid.size), CapGrid.size)}
        ELSE {}

\* the backend's answers for every region tried
CapTable ==
    UNION {{[region |-> region, models |-> CapModels(F, region)] : region \in CapRegions} :
              F \in {ConnectivityClauses(CapGrid.size, CapGrid.chars)}}

\* from_placements called directly: vectors of up to MaxPlacements placements
\* of three words in the top row of a 5 x 5 grid
MaxPlacements == 3

DirectPlacements ==
    {Placement(w, x, 0, h) : w \in {CAT, TAR}, x \in {0, 2}, h \in BOOLEAN}
    \cup {Placement(CAR, 0, 0, FALSE)}

DirectInputs ==
    UNION {[1 .. n -> DirectPlacements] : n \in 0 .. MaxPlacements}

\* extract_placements called directly on an encoder built for DirectWords,
\* with a literal slice of the caller's own: any of these variables true
DirectGrid == [words |-> {CAT, CAR}, size |-> 3]

DirectModelVars ==
    {PVar(CAT, 0, 0, TRUE), PVar(CAR, 0, 0, FALSE),
     GVar(0, 0, "C"), GVar(1, 0, "A"), GVar(2, 0, "T"), GVar(1, 1, "R"), GVar(2, 2, "A")}

DirectModels == SUBSET DirectModelVars

\* the number of generate_crossword calls of one run (the count argument)
MaxPuzzles == 2

(***************************************************************************)
(* Strings (dictionary.rs).  A string is the sequence of its characters,   *)
(* a character a one-character string, or "U+" and its code point when it   *)
(* is not printable ASCII.  A position is a character index from 0, and    *)
(* -1 where the code has None.                                             *)
(***************************************************************************)
LowerLetters ==
    <<"a", "b", "c", "d", "e", "f", "g", "h", "i", "j", "k", "l", "m", "n",
      "o", "p", "q", "r", "s", "t", "u", "v", "w", "x", "y", "z">>

UpperLetters ==
    <<"A", "B", "C", "D", "E", "F", "G", "H", "I", "J", "K", "L", "M", "N",
      "O", "P", "Q", "R", "S", "T", "U", "V", "W", "X", "Y", "Z">>

IndexIn(seq, c) ==
    IF \E i \in DOMAIN seq : seq[i] = c
    THEN CHOOSE i \in DOMAIN seq : seq[i] = c
    ELSE 0

\* the lower-case letter of each upper-case ASCII letter, and the reverse
LowerOf == [c \in Range(UpperLetters) |-> LowerLetters[IndexIn(UpperLetters, c)]]

UpperOf == [c \in Range(LowerLetters) |-> UpperLetters[IndexIn(LowerLetters, c)]]

\* char::is_ascii_alphabetic
IsAsciiAlphabetic(c) == c \in DOMAIN LowerOf \/ c \in DOMAIN UpperOf

\* char::is_alphabetic
IsAlphabetic(c) == IsAsciiAlphabetic(c) \/ c \in {"U+00E9", "U+00C9"}

\* char::is_uppercase
IsUppercase(c) == c \in DOMAIN LowerOf \/ c = "U+00C9"

\* char::is_ascii_digit
IsAsciiDigit(c) == c \in {"0", "1", "2", "3", "4", "5", "6", "7", "8", "9"}

\* char::is_whitespace
IsWhitespace(c) == c \in {" ", "\t"}

\* char::is_control
IsControl(c) == c \in {"U+0007", "\t"}

\* char::to_lowercase
CharLower(c) ==
    IF c \in DOMAIN LowerOf THEN LowerOf[c]
    ELSE IF c = "U+00C9" THEN "U+00E9"
    ELSE c

\* char::to_uppercase
CharUpper(c) ==
    IF c \in DOMAIN UpperOf THEN UpperOf[c]
    ELSE IF c = "U+00E9" THEN "U+00C9"
    ELSE c

\* the length of a character in UTF-8
CharBytes(c) ==
    IF c \in {"U+00E9", "U+00C9"} THEN 2
    ELSE IF c \in {"U+2014", "U+2013"} THEN 3
    ELSE 1

\* str::len: the length in bytes
ByteLen(s) ==
    Len(s) + Cardinality({i \in DOMAIN s : CharBytes(s[i]) = 2})
           + 2 * Cardinality({i \in DOMAIN s : CharBytes(s[i]) = 3})

\* str::to_lowercase, str::to_uppercase
ToLowercase(s) == [i \in DOMAIN s |-> CharLower(s[i])]

ToUppercase(s) == [i \in DOMAIN s |-> CharUpper(s[i])]

SetMin(S) == CHOOSE m \in S : \A e \in S : m <= e

\* s[n..] and s[..n], n in characters
DropChars(s, n) == SubSeq(s, n + 1, Len(s))

TakeChars(s, n) == SubSeq(s, 1, n)

\* str::starts_with, str::ends_with
StartsWith(s, p) == Len(p) <= Len(s) /\ \A k \in DOMAIN p : s[k] = p[k]

EndsWith(s, p) == Len(p) <= Len(s) /\ \A k \in DOMAIN p : s[Len(s) - Len(p) + k] = p[k]

\* the positions at which p occurs in s
Matches(s, p) == {i \in 0 .. Len(s) - Len(p) : \A k \in DOMAIN p : s[i + k] = p[k]}

\* str::find, str::rfind, str::contains
Find(s, p) == IF Matches(s, p) = {} THEN -1 ELSE SetMin(Matches(s, p))

RFind(s, p) == IF Matches(s, p) = {} THEN -1 ELSE SetMax(Matches(s, p))

Contains(s, p) == Matches(s, p) /= {}

\* str::find(|c| c.is_ascii_digit())
FindDigit(s) ==
    IF \E i \in DOMAIN s : IsAsciiDigit(s[i])
    THEN SetMin({i \in DOMAIN s : IsAsciiDigit(s[i])}) - 1
    ELSE -1

\* str::trim_start, str::trim_end, str::trim
TrimStart(s) ==
    LET kept == {i \in DOMAIN s : ~IsWhitespace(s[i])}
    IN  IF kept = {} THEN <<>> ELSE DropChars(s, SetMin(kept) - 1)

TrimEnd(s) ==
    LET kept == {i \in DOMAIN s : ~IsWhitespace(s[i])}
    IN  IF kept = {} THEN <<>> ELSE TakeChars(s, SetMax(kept))

Trim(s) == TrimEnd(TrimStart(s))

\* str::trim_end_matches(c)
TrimEndMatches(s, c) ==
    LET kept == {i \in DOMAIN s : s[i] /= c}
    IN  IF kept = {} THEN <<>> ELSE TakeChars(s, SetMax(kept))

\* str::trim_end_matches(|c| c.is_ascii_digit())
TrimEndDigits(s) ==
    LET kept == {i \in DOMAIN s : ~IsAsciiDigit(s[i])}
    IN  IF kept = {} THEN <<>> ELSE TakeChars(s, SetMax(kept))

\* str::split_whitespace
RECURSIVE SplitWhitespace(_)
SplitWhitespace(s) ==
    LET t == TrimStart(s)
    IN  IF t = <<>> THEN <<>>
        ELSE LET stops == {i \in DOMAIN t : IsWhitespace(t[i])}
                 n == IF stops = {} THEN Len(t) ELSE SetMin(stops) - 1
             IN  <<TakeChars(t, n)>> \o SplitWhitespace(DropChars(t, n))

\* [&str]::join(" ")
RECURSIVE JoinSpace(_)
JoinSpace(ws) ==
    IF ws = <<>> THEN <<>>
    ELSE IF Len(ws) = 1 THEN ws[1]
    ELSE ws[1] \o <<" ">> \o JoinSpace(Tail(ws))

\* first.to_uppercase() + the rest
Capitalize(s) == IF s = <<>> THEN s ELSE <<CharUpper(Head(s))>> \o Tail(s)

(***************************************************************************)
(* Dictionary::extract_clue (dictionary.rs): the clue of a definition,     *)
(* one operator for each step of the function, in the order of the code.   *)
(***************************************************************************)
DefinitionNotAvailable ==
    <<"D", "e", "f", "i", "n", "i", "t", "i", "o", "n", " ", "n", "o", "t",
      " ", "a", "v", "a", "i", "l", "a", "b", "l", "e">>

\* for label in labels: if def.to_lowercase().starts_with(label), drop it
\* (every label is tried, each on what the earlier ones left)
RECURSIVE StripEach(_, _)
StripEach(def, labels) ==
    IF labels = <<>> THEN def
    ELSE StripEach(IF StartsWith(ToLowercase(def), Head(labels))
                   THEN DropChars(def, Len(Head(labels)))
                   ELSE def,
                   Tail(labels))

\* for marker in markers: the first one def.to_lowercase() starts with is
\* dropped, and the loop breaks
RECURSIVE StripFirst(_, _)
StripFirst(def, markers) ==
    IF markers = <<>> THEN def
    ELSE IF StartsWith(ToLowercase(def), Head(markers))
         THEN DropChars(def, Len(Head(markers)))
         ELSE StripFirst(def, Tail(markers))

StyleLabels ==
    <<<<"l", "i", "t", "e", "r", "a", "r", "y", " ">>,
      <<"f", "o", "r", "m", "a", "l", " ">>,
      <<"a", "r", "c", "h", "a", "i", "c", " ">>>>

PosMarkers ==
    <<<<"a", "t", "t", "r", "i", "b", ".", " ", "a", "d", "j", ".", " ">>,
      <<"a", "t", "t", "r", "i", "b", ".", "a", "d", "j", ".", " ">>,
      <<"n", ".", "p", "l", ".", " ">>,
      <<"v", ".", "t", "r", ".", " ">>,
      <<"v", ".", "i", "n", "t", "r", ".", " ">>,
      <<"a", "d", "v", ".", " ">>,
      <<"a", "d", "j", ".", " ">>,
      <<"n", ".", " ">>,
      <<"v", ".", " ">>,
      <<"p", "r", "e", "p", ".", " ">>,
      <<"c", "o", "n", "j", ".", " ">>>>

UsageLabels ==
    <<<<"c", "o", "l", "l", "o", "q", ".", " ">>,
      <<"e", "s", "p", ".", " ">>,
      <<"u", "s", "u", ".", " ">>>>

TrailingPos ==
    <<<<" ", "n", ".", " ", "&", " ", "a", "d", "j">>,
      <<" ", "a", "d", "j", ".", " ", "&", " ", "n">>,
      <<" ", "n", ".", " ", "&", " ", "v">>,
      <<" ", "v", ".", " ", "&", " ", "n">>>>

SinglePos == {<<"a", "d", "j">>, <<"a", "d", "v">>, <<"n">>, <<"v">>}

DerivativePos ==
    {<<"a", "d", "j">>,
     <<"a", "d", "v">>,
     <<"n">>,
     <<"v">>,
     <<"p", "r", "e", "p">>,
     <<"c", "o", "n", "j">>,
     <<"p", "r", "o", "n">>}

CapitalizedPos ==
    <<<<"N", ".">>,
      <<"V", ".">>,
      <<"A", "d", "j", ".">>,
      <<"A", "d", "v", ".">>,
      <<"P", "r", "e", "p", ".">>,
      <<"C", "o", "n", "j", ".">>>>

EnumerationLetters == <<"a", "b", "c", "d", "e">>

RemoveStyleLabels(def) == StripEach(def, StyleLabels)

\* a definition that starts with a dash starts after its first ". "
HandleEmDash(def) ==
    IF StartsWith(def, <<"U+2014">>) \/ StartsWith(def, <<"U+2013">>) \/ StartsWith(def, <<"-", "-">>)
    THEN IF Find(def, <<".", " ">>) >= 0
         THEN DropChars(def, Find(def, <<".", " ">>) + 2)
         ELSE def
    ELSE def

RemovePosAtStart(def) == Trim(StripFirst(def, PosMarkers))

\* a parenthesis at the start that closes before byte 25 is dropped
RemovePluralNotes(def) ==
    IF StartsWith(def, <<"(">>) /\ ByteLen(def) > 3 /\ Find(def, <<")">>) >= 0
       /\ ByteLen(TakeChars(def, Find(def, <<")">>))) < 25
    THEN Trim(DropChars(def, Find(def, <<")">>) + 1))
    ELSE def

\* the text after the first digit
FirstNumberedDefinition(def) ==
    IF FindDigit(def) >= 0
    THEN TrimStart(DropChars(def, FindDigit(def) + 1))
    ELSE def

RemoveUsageLabels(def) == StripEach(def, UsageLabels)

RemoveUsageParentheticals(def) ==
    IF StartsWith(def, <<"(">>) /\ Find(def, <<")">>) >= 0
    THEN LET close == Find(def, <<")">>)
             content == ToLowercase(SubSeq(def, 2, close))
         IN  IF \/ Contains(content, <<"f", "o", "l", "l">>)
                \/ Contains(content, <<"u", "s", "u">>)
                \/ Contains(content, <<"o", "f", "t", "e", "n">>)
             THEN Trim(DropChars(def, close + 1))
             ELSE def
    ELSE def

RemoveSecondaryEmDash(def) ==
    IF Find(def, <<" ", "U+2014">>) >= 0
    THEN Trim(TakeChars(def, Find(def, <<" ", "U+2014">>)))
    ELSE def

\* cut at the first ". " that a digit follows
StopAtNextNumbered(def) ==
    LET hits == {i \in Matches(def, <<".", " ">>) :
                    i + 3 <= Len(def) /\ IsAsciiDigit(def[i + 3])}
    IN  IF hits = {} THEN def ELSE TakeChars(def, SetMin(hits))

\* the first parenthetical is removed while iter <= 3 and it closes
RECURSIVE RemoveParentheticals(_, _)
RemoveParentheticals(def, iter) ==
    LET open == Find(def, <<"(">>)
        close == Find(DropChars(def, open), <<")">>)
        before == Trim(TakeChars(def, open))
        after == Trim(DropChars(def, open + close + 1))
    IN  IF open < 0 \/ iter > 3 THEN def
        ELSE IF close < 0 THEN def
        ELSE RemoveParentheticals(IF before = <<>> THEN after
                                  ELSE IF after = <<>> THEN before
                                  ELSE before \o <<" ">> \o after,
                                  iter + 1)

\* def.split("; ").next()
SplitOnSemicolon(def) ==
    Trim(IF Find(def, <<";", " ">>) >= 0 THEN TakeChars(def, Find(def, <<";", " ">>)) ELSE def)

RemoveControlCharacters(def) ==
    SelectSeq(def, LAMBDA c : ~IsControl(c) \/ IsWhitespace(c))

RemoveEtymology(def) ==
    IF RFind(def, <<"[">>) >= 0 THEN Trim(TakeChars(def, RFind(def, <<"[">>))) ELSE def

RECURSIVE RemoveTrailingPosFrom(_, _)
RemoveTrailingPosFrom(def, suffixes) ==
    IF suffixes = <<>> THEN def
    ELSE IF EndsWith(ToLowercase(def), Head(suffixes))
         THEN Trim(TakeChars(def, Len(def) - Len(Head(suffixes))))
         ELSE RemoveTrailingPosFrom(def, Tail(suffixes))

RemoveTrailingPos(def) == RemoveTrailingPosFrom(def, TrailingPos)

RemoveTrailingSinglePos(def) ==
    IF RFind(def, <<" ">>) >= 0 /\ DropChars(def, RFind(def, <<" ">>) + 1) \in SinglePos
    THEN Trim(TakeChars(def, RFind(def, <<" ">>)))
    ELSE def

\* while the last word is a part of speech, the last two words are dropped
RECURSIVE RemoveDerivativeForms(_)
RemoveDerivativeForms(def) ==
    IF RFind(def, <<" ">>) >= 0
       /\ TrimEndMatches(DropChars(def, RFind(def, <<" ">>) + 1), ".") \in DerivativePos
    THEN LET ws == SplitWhitespace(def)
             shorter == IF Len(ws) >= 2 THEN JoinSpace(TakeChars(ws, Len(ws) - 2)) ELSE def
         IN  IF ByteLen(shorter) >= ByteLen(def) THEN shorter
             ELSE RemoveDerivativeForms(shorter)
    ELSE def

\* cut at ". x" or, failing that, at " x ", for the first letter x of a..e
\* that has either
RECURSIVE StopAtLetterEnumeration(_, _)
StopAtLetterEnumeration(def, letters) ==
    IF letters = <<>> THEN def
    ELSE IF Find(def, <<".", " ", Head(letters)>>) >= 0
         THEN TakeChars(def, Find(def, <<".", " ", Head(letters)>>))
    ELSE IF Find(def, <<" ", Head(letters), " ">>) >= 0
         THEN TakeChars(def, Find(def, <<" ", Head(letters), " ">>))
    ELSE StopAtLetterEnumeration(def, Tail(letters))

StripLeadingEnumerationLetter(def) ==
    IF ByteLen(def) > 2 /\ Len(def) >= 2 /\ def[1] \in {"A", "a", "B", "b", "C", "c"}
       /\ def[2] = " "
    THEN Trim(DropChars(def, 2))
    ELSE def

RECURSIVE StripCapitalizedPos(_, _)
StripCapitalizedPos(def, markers) ==
    IF markers = <<>> THEN def
    ELSE IF StartsWith(def, Head(markers))
         THEN Capitalize(DropChars(def, Len(Head(markers))))
         ELSE StripCapitalizedPos(def, Tail(markers))

\* the one element of a set of one element
TheOne(S) == CHOOSE e \in S : TRUE

\* lines 106-256: the definition before the first length test.  The steps
\* run from the innermost set outwards, d1 to d16 being what the steps
\* before left.
CleanDefinition(definition) ==
    TheOne(
     {Trim(TrimEndMatches(d16, ".")) : d16 \in
     {RemoveDerivativeForms(d15) : d15 \in
     {RemoveTrailingSinglePos(d14) : d14 \in
     {RemoveTrailingPos(d13) : d13 \in
     {RemoveEtymology(d12) : d12 \in
     {RemoveControlCharacters(d11) : d11 \in
     {SplitOnSemicolon(d10) : d10 \in
     {RemoveParentheticals(d9, 0) : d9 \in
     {StopAtNextNumbered(d8) : d8 \in
     {RemoveSecondaryEmDash(d7) : d7 \in
     {RemoveUsageParentheticals(d6) : d6 \in
     {RemoveUsageLabels(d5) : d5 \in
     {FirstNumberedDefinition(d4) : d4 \in
     {RemovePluralNotes(d3) : d3 \in
     {RemovePosAtStart(d2) : d2 \in
     {HandleEmDash(d1) : d1 \in
     {RemoveStyleLabels(Trim(definition))}}}}}}}}}}}}}}}}})

\* lines 262-287
StripEnumeration(def) ==
    TheOne({Trim(StripLeadingEnumerationLetter(cut))
            : cut \in {Trim(StopAtLetterEnumeration(def, EnumerationLetters))}})

\* lines 293-313
NormalizeCapitalization(def) ==
    StripCapitalizedPos(Capitalize(ToLowercase(def)), CapitalizedPos)

\* lines 258-315: the two length tests and what is returned
FinishClue(cleaned) ==
    IF ByteLen(cleaned) < 3 THEN DefinitionNotAvailable
    ELSE TheOne({IF ByteLen(stripped) < 3 THEN DefinitionNotAvailable
                 ELSE NormalizeCapitalization(stripped)
                 : stripped \in {StripEnumeration(cleaned)}})

ExtractClue(definition) ==
    IF Trim(definition) = <<>> THEN DefinitionNotAvailable
    ELSE TheOne({FinishClue(cleaned) : cleaned \in {CleanDefinition(definition)}})

(***************************************************************************)
(* Dictionary::new (dictionary.rs): the entries parsed from the lines of   *)
(* the dictionary text, and the words the filter admits.                   *)
(***************************************************************************)
\* trimmed.splitn(2, "  ")
SplitTwoSpaces(s) ==
    IF Find(s, <<" ", " ">>) < 0 THEN <<s>>
    ELSE <<TakeChars(s, Find(s, <<" ", " ">>)), DropChars(s, Find(s, <<" ", " ">>) + 2)>>

\* word.replace("-", "")
RemoveHyphens(word) == SelectSeq(word, LAMBDA c : c /= "-")

IsReference(definition) ==
    LET def_lower == ToLowercase(definition)
    IN  \/ StartsWith(def_lower, <<"v", "a", "r", ".", " ", "o", "f">>)
        \/ StartsWith(def_lower, <<"v", "a", "r", "i", "a", "n", "t", " ", "o", "f">>)
        \/ StartsWith(def_lower, <<"s", "e", "e", " ">>)
        \/ StartsWith(def_lower, <<"=", " ">>)
        \/ StartsWith(def_lower, <<"o", "f", " ", "*">>)
        \/ (StartsWith(def_lower, <<"o", "f", " ">>) /\ Contains(def_lower, <<"*">>))

\* the entry a line inserts: Some(<<key, definition>>), or None
ParseLine(line) ==
    LET trimmed == Trim(line)
        parts == SplitTwoSpaces(trimmed)
        word == Trim(parts[1])
        definition == Trim(parts[2])
        word_clean == TrimEndDigits(RemoveHyphens(word))
    IN  IF trimmed = <<>> THEN None
        ELSE IF ~(IsUppercase(trimmed[1]) /\ IsAlphabetic(trimmed[1])) THEN None
        ELSE IF Len(parts) /= 2 THEN None
        ELSE IF word = <<>> \/ \E i \in DOMAIN word : ~(IsAlphabetic(word[i]) \/ word[i] = "-")
             THEN None
        ELSE IF word_clean = <<>> THEN None
        ELSE IF IsReference(definition) THEN None
        ELSE Some(<<ToUppercase(word_clean), definition>>)

\* entries.insert(key, definition)
Insert(entries, key, definition) ==
    [k \in DOMAIN entries \cup {key} |-> IF k = key THEN definition ELSE entries[k]]

\* the entries after one more line
ReadLine(entries, line) ==
    TheOne({IF entry = None THEN entries ELSE Insert(entries, entry[1][1], entry[1][2])
            : entry \in {ParseLine(line)}})

RECURSIVE ParseLines(_, _)
ParseLines(lines, entries) ==
    IF lines = <<>> THEN entries
    ELSE ParseLines(Tail(lines), ReadLine(entries, Head(lines)))

ValidWord(w) ==
    ByteLen(w) >= 3 /\ ByteLen(w) <= 15 /\ \A i \in DOMAIN w : IsAsciiAlphabetic(w[i])

NotSpecial(w, def) ==
    LET def_lower == ToLowercase(def)
    IN  /\ ~StartsWith(def_lower, <<"p", "r", "e", "f", "i", "x">>)
        /\ ~StartsWith(def_lower, <<"s", "u", "f", "f", "i", "x">>)
        /\ ~StartsWith(def_lower, <<"a", "b", "b", "r", ".">>)
        /\ ~Contains(def_lower, <<"a", "b", "b", "r", ".", " ">>)
        /\ ~EndsWith(w, <<".">>)

\* the filter without the test of the length of the clue
CleanClueAnyLength(w, clue) ==
    /\ clue /= DefinitionNotAvailable
    /\ ~Contains(ToLowercase(clue), ToLowercase(w))
    /\ ~StartsWith(ToLowercase(clue), <<"o", "f", " ">>)
    /\ ~Contains(clue, <<")", " ">>)
    /\ ~EndsWith(clue, <<")">>)
    /\ ~Contains(clue, <<"*">>)

CleanClue(w, clue) ==
    /\ clue /= DefinitionNotAvailable
    /\ ~Contains(ToLowercase(clue), ToLowercase(w))
    /\ ByteLen(clue) > 10
    /\ ~StartsWith(ToLowercase(clue), <<"o", "f", " ">>)
    /\ ~Contains(clue, <<")", " ">>)
    /\ ~EndsWith(clue, <<")">>)
    /\ ~Contains(clue, <<"*">>)

\* the closure of the filter
Admitted(w, def) == ValidWord(w) /\ NotSpecial(w, def) /\ CleanClue(w, ExtractClue(def))

NewDictionary(lines) ==
    TheOne({[entries |-> parsed,
             words |-> {w \in DOMAIN parsed : Admitted(w, parsed[w])}]
            : parsed \in {ParseLines(lines, <<>>)}})

GetWords(d) == d.words

GetClue(d, word) ==
    IF ToUppercase(word) \in DOMAIN d.entries
    THEN ExtractClue(d.entries[ToUppercase(word)])
    ELSE DefinitionNotAvailable

(***************************************************************************)
(* The lines of dictionary text explored, in the format of                 *)
(* Oxford_English_Dictionary.txt (headword, two spaces, definition), and   *)
(* the words looked up.                                                    *)
(***************************************************************************)
\* Wren  n. Small bird.
LineWren ==
    <<"W", "r", "e", "n", " ", " ", "n", ".", " ", "S", "m", "a", "l", "l",
      " ", "b", "i", "r", "d", ".">>

\* Lark  n. Small songbird.
LineLark ==
    <<"L", "a", "r", "k", " ", " ", "n", ".", " ", "S", "m", "a", "l", "l",
      " ", "s", "o", "n", "g", "b", "i", "r", "d", ".">>

\* Lark  v. Frolic about merrily.
LineLarkVerb ==
    <<"L", "a", "r", "k", " ", " ", "v", ".", " ", "F", "r", "o", "l", "i",
      "c", " ", "a", "b", "o", "u", "t", " ", "m", "e", "r", "r", "i", "l",
      "y", ".">>

\* Owl  n. Bird.
LineOwl ==
    <<"O", "w", "l", " ", " ", "n", ".", " ", "B", "i", "r", "d", ".">>

\* Caf(U+00E9)  n. Small restaurant or bar.
LineCafe ==
    <<"C", "a", "f", "U+00E9", " ", " ", "n", ".", " ", "S", "m", "a", "l", "l",
      " ", "r", "e", "s", "t", "a", "u", "r", "a", "n", "t", " ", "o", "r",
      " ", "b", "a", "r", ".">>

\* Ant  n. (pl. ants) 1 small insect (often wingless) living in colonies. 2 busy person.
LineAnt ==
    <<"A", "n", "t", " ", " ", "n", ".", " ", "(", "p", "l", ".", " ", "a",
      "n", "t", "s", ")", " ", "1", " ", "s", "m", "a", "l", "l", " ", "i",
      "n", "s", "e", "c", "t", " ", "(", "o", "f", "t", "e", "n", " ", "w",
      "i", "n", "g", "l", "e", "s", "s", ")", " ", "l", "i", "v", "i", "n",
      "g", " ", "i", "n", " ", "c", "o", "l", "o", "n", "i", "e", "s", ".",
      " ", "2", " ", "b", "u", "s", "y", " ", "p", "e", "r", "s", "o", "n",
      ".">>

\* Pre  prefix before in time or place.
LinePre ==
    <<"P", "r", "e", " ", " ", "p", "r", "e", "f", "i", "x", " ", "b", "e",
      "f", "o", "r", "e", " ", "i", "n", " ", "t", "i", "m", "e", " ", "o",
      "r", " ", "p", "l", "a", "c", "e", ".">>

\* Elk  n. Large elk-like deer of the north.
LineElk ==
    <<"E", "l", "k", " ", " ", "n", ".", " ", "L", "a", "r", "g", "e", " ",
      "e", "l", "k", "-", "l", "i", "k", "e", " ", "d", "e", "e", "r", " ",
      "o", "f", " ", "t", "h", "e", " ", "n", "o", "r", "t", "h", ".">>

\* Emu  of the large flightless birds.
LineEmu ==
    <<"E", "m", "u", " ", " ", "o", "f", " ", "t", "h", "e", " ", "l", "a",
      "r", "g", "e", " ", "f", "l", "i", "g", "h", "t", "l", "e", "s", "s",
      " ", "b", "i", "r", "d", "s", ".">>

\* Gnu  see wildebeest.
LineGnu ==
    <<"G", "n", "u", " ", " ", "s", "e", "e", " ", "w", "i", "l", "d", "e",
      "b", "e", "e", "s", "t", ".">>

\* Yak  n. Long-haired *ox of Tibet.
LineYak ==
    <<"Y", "a", "k", " ", " ", "n", ".", " ", "L", "o", "n", "g", "-", "h",
      "a", "i", "r", "e", "d", " ", "*", "o", "x", " ", "o", "f", " ", "T",
      "i", "b", "e", "t", ".">>

\* Bee  n. Insect) that makes honey.
LineBee ==
    <<"B", "e", "e", " ", " ", "n", ".", " ", "I", "n", "s", "e", "c", "t",
      ")", " ", "t", "h", "a", "t", " ", "m", "a", "k", "e", "s", " ", "h",
      "o", "n", "e", "y", ".">>

\* Eel  n. Long thin snakelike fish)
LineEel ==
    <<"E", "e", "l", " ", " ", "n", ".", " ", "L", "o", "n", "g", " ", "t",
      "h", "i", "n", " ", "s", "n", "a", "k", "e", "l", "i", "k", "e", " ",
      "f", "i", "s", "h", ")">>

\* Ox  n. Large bovine animal kept for milk.
LineOx ==
    <<"O", "x", " ", " ", "n", ".", " ", "L", "a", "r", "g", "e", " ", "b",
      "o", "v", "i", "n", "e", " ", "a", "n", "i", "m", "a", "l", " ", "k",
      "e", "p", "t", " ", "f", "o", "r", " ", "m", "i", "l", "k", ".">>

\* Co-op  n. Cooperative society or shop.
LineCoop ==
    <<"C", "o", "-", "o", "p", " ", " ", "n", ".", " ", "C", "o", "o", "p",
      "e", "r", "a", "t", "i", "v", "e", " ", "s", "o", "c", "i", "e", "t",
      "y", " ", "o", "r", " ", "s", "h", "o", "p", ".">>

\* usage  Lines that begin in lower case are notes.
LineUsage ==
    <<"u", "s", "a", "g", "e", " ", " ", "L", "i", "n", "e", "s", " ", "t",
      "h", "a", "t", " ", "b", "e", "g", "i", "n", " ", "i", "n", " ", "l",
      "o", "w", "e", "r", " ", "c", "a", "s", "e", " ", "a", "r", "e", " ",
      "n", "o", "t", "e", "s", ".">>

\* Bow1  n. Weapon for shooting arrows.
LineBow ==
    <<"B", "o", "w", "1", " ", " ", "n", ".", " ", "W", "e", "a", "p", "o",
      "n", " ", "f", "o", "r", " ", "s", "h", "o", "o", "t", "i", "n", "g",
      " ", "a", "r", "r", "o", "w", "s", ".">>

SampleLines ==
    {LineBow,
     LineWren,
     LineLark,
     LineLarkVerb,
     LineOwl,
     LineCafe,
     LineAnt,
     LinePre,
     LineElk,
     LineEmu,
     LineGnu,
     LineYak,
     LineBee,
     LineEel,
     LineOx,
     LineCoop,
     LineUsage}

MaxLines == 2

Texts == UNION {[1 .. n -> SampleLines] : n \in 0 .. MaxLines}

Lookups ==
    {<<"l", "a", "r", "k">>,
     <<"W", "R", "E", "N">>,
     <<"O", "W", "L">>,
     <<"G", "N", "U">>,
     <<"E", "m", "u">>}

\* the k-th word of a length: the k-th letter, then A's
SyntheticWord(len, k) == [i \in 1 .. len |-> IF i = 1 THEN UpperLetters[k] ELSE "A"]

\* a dictionary with counts[len] words of each length len
SyntheticWords(counts) ==
    UNION {{SyntheticWord(len, k) : k \in 1 .. counts[len]} : len \in DOMAIN counts}

\* Dictionaries of the order of the selection's limits, one for each range
\* of grid sizes: a group of one word more than the loop takes from it, the
\* groups that fill the limit, and groups the loop does not reach.
SelectInputs ==
    {[size |-> 8,
      all_words |-> SyntheticWords(3 :> 15 @@ 4 :> 14 @@ 5 :> 3 @@ 6 :> 9 @@ 7 :> 8
                                   @@ 8 :> 2 @@ 9 :> 5)],
     [size |-> 10,
      all_words |-> SyntheticWords(3 :> 22 @@ 4 :> 21 @@ 5 :> 21 @@ 6 :> 8 @@ 7 :> 8
                                   @@ 8 :> 8 @@ 9 :> 9 @@ 10 :> 8 @@ 11 :> 3)],
     [size |-> 12,
      all_words |-> SyntheticWords(3 :> 26 @@ 4 :> 26 @@ 5 :> 26 @@ 6 :> 10 @@ 7 :> 9
                                   @@ 8 :> 9 @@ 9 :> 8 @@ 10 :> 8 @@ 11 :> 8
                                   @@ 12 :> 8)],
     [size |-> 15,
      all_words |-> SyntheticWords(3 :> 23 @@ 4 :> 22 @@ 5 :> 22 @@ 6 :> 8 @@ 7 :> 8
                                   @@ 8 :> 8 @@ 9 :> 8 @@ 10 :> 8 @@ 11 :> 8
                                   @@ 12 :> 8 @@ 13 :> 8 @@ 14 :> 8 @@ 15 :> 8)],
     [size |-> 16,
      all_words |-> SyntheticWords(3 :> 17 @@ 4 :> 17 @@ 5 :> 17 @@ 6 :> 8 @@ 7 :> 8
                                   @@ 8 :> 8 @@ 9 :> 8 @@ 10 :> 8 @@ 11 :> 8
                                   @@ 12 :> 8 @@ 13 :> 8 @@ 14 :> 8 @@ 15 :> 8)]}

(***************************************************************************)
(* The generator as a state machine.                                       *)
(*   pc         where the program is                                       *)
(*   all_words  dict.get_words() of the call                               *)
(*   size       the grid size of the call                                  *)
(*   words      the selected candidate words                               *)
(*   model      the model the SAT backend returned                         *)
(*   placements the placement vector                                       *)
(*   puzzle     None or Some(the CrosswordPuzzle built)                    *)
(*   outcome    the result of the generate_crossword call                  *)
(*   solves     the backend solve() calls made by the current call         *)
(*   calls      the generate_crossword calls started by main               *)
(*   run        the generation run of main: its jobs and its report        *)
(*   wasm       the wasm interface: ENCODER_STATE and its callers          *)
(*   dict       the Dictionary built, and the last get_clue call made       *)
(*   counter    an at_least_k call made on its own: None or Some(call)     *)
(*   seeded     the runs of main made, each with its seed argument         *)
(*   latex      an escape_latex call: None or Some(input and output)       *)
(*   api        the wasm interface under concurrent callers: the two       *)
(*              mutexes, what they guard, and the calls in progress        *)
(***************************************************************************)
VARIABLES pc, all_words, size, words, model, placements, puzzle, outcome, solves, calls,
          run, wasm, dict, counter, seeded, latex, api

\* the variables of one generate_crossword call
gen == <<pc, all_words, size, words, model, placements, puzzle, outcome, solves, calls>>

\* the variables of the parts followed on their own, None while not in use
others == <<counter, seeded, latex, api>>

\* the variables outside one generate_crossword call
side == <<run, wasm, dict, others>>

vars == <<gen, side>>

Quiet ==
    /\ counter = None
    /\ seeded = None
    /\ latex = None
    /\ api = None

\* no generation run is under way
NoRun ==
    [count |-> 0, job |-> <<>>, phase |-> "off", successful |-> 0, failed |-> 0,
     result |-> "none"]

\* the wasm interface is not in use
NoWasm == [state |-> None, flow |-> <<>>]

NoDict == [text |-> {}, entries |-> <<>>, words |-> {}, word |-> None, clue |-> None]

\* no generate_crossword call has been made
Idle ==
    /\ pc = "idle"
    /\ all_words = {}
    /\ size = 0
    /\ words = {}
    /\ model = {}
    /\ placements = <<>>
    /\ puzzle = None
    /\ outcome = "none"
    /\ solves = 0
    /\ calls = 0

Init ==
    /\ Idle
    /\ run = NoRun
    /\ wasm = NoWasm
    /\ dict = NoDict
    /\ Quiet

\* main calls generate_crossword(&dict, args.size); the words are selected
Generate ==
    /\ pc \in {"idle", "done"}
    /\ calls < MaxPuzzles
    /\ \E i \in Instances :
        /\ all_words' = i.all_words
        /\ size' = i.size
        /\ words' \in SelectWords(i.all_words, i.size)
    /\ pc' = "solve"
    /\ model' = {}
    /\ placements' = <<>>
    /\ puzzle' = None
    /\ outcome' = "none"
    /\ solves' = 0
    /\ calls' = calls + 1
    /\ UNCHANGED side

\* solve_with_iterations: encode, then solver.solve() answers Ok(true)
SolveSat ==
    /\ pc = "solve"
    /\ model' \in ModelTable[[words |-> words, size |-> size]]
    /\ pc' = "extract"
    /\ solves' = solves + 1
    /\ UNCHANGED <<all_words, size, words, placements, puzzle, outcome, calls>>
    /\ UNCHANGED side

\* solver.solve() answers Ok(false)
SolveUnsat ==
    /\ pc = "solve"
    /\ ModelTable[[words |-> words, size |-> size]] = {}
    /\ pc' = "done"
    /\ outcome' = "Unsat"
    /\ solves' = solves + 1
    /\ UNCHANGED <<all_words, size, words, model, placements, puzzle, calls>>
    /\ UNCHANGED side

\* solver.solve() answers Err(e)
SolveError ==
    /\ pc = "solve"
    /\ pc' = "done"
    /\ outcome' = "SolverError"
    /\ solves' = solves + 1
    /\ UNCHANGED <<all_words, size, words, model, placements, puzzle, calls>>
    /\ UNCHANGED side

\* extract_placements, then the emptiness test; the encoder and the model
\* are dropped when solve_with_iterations returns
Extract ==
    /\ pc = "extract"
    /\ \E extracted \in ExtractPlacements(model, words, size) :
        /\ placements' = extracted
        /\ IF SolveResult(extracted) = "Ok"
           THEN pc' = "assemble" /\ outcome' = outcome
           ELSE pc' = "done" /\ outcome' = SolveResult(extracted)
    /\ model' = {}
    /\ UNCHANGED <<all_words, size, words, puzzle, solves, calls>>
    /\ UNCHANGED side

\* generate_crossword builds the puzzle and returns Ok(puzzle)
Assemble ==
    /\ pc = "assemble"
    /\ puzzle' = Some(FromPlacements(placements, size))
    /\ outcome' = "puzzle"
    /\ pc' = "done"
    /\ UNCHANGED <<all_words, size, words, model, placements, solves, calls>>
    /\ UNCHANGED side

\* a library user calls CrosswordPuzzle::from_placements with its own vector
BuildDirect ==
    /\ pc = "idle"
    /\ calls = 0
    /\ \E input \in DirectInputs :
        /\ placements' = input
        /\ size' = 5
        /\ puzzle' = Some(FromPlacements(input, 5))
    /\ pc' = "built"
    /\ UNCHANGED <<all_words, words, model, outcome, solves, calls>>
    /\ UNCHANGED side

\* the backend is handed the clauses of add_connectivity_constraint alone and
\* returns one of their models
SolveConn ==
    /\ pc = "idle"
    /\ calls = 0
    /\ size' = ConnGrid.size
    /\ model' \in ConnModels
    /\ pc' = "model"
    /\ UNCHANGED <<all_words, words, placements, puzzle, outcome, solves, calls>>
    /\ UNCHANGED side

\* the backend is handed the clauses of add_connectivity_constraint for the
\* 9 x 9 grid with the filled cells fixed to a region: it returns a model, or
\* there is none and model keeps the cells it was given
SolveCap ==
    /\ pc = "idle"
    /\ calls = 0
    /\ size' = CapGrid.size
    /\ \E answer \in CapTable :
        IF answer.models /= {}
        THEN model' \in answer.models /\ pc' = "capped"
        ELSE model' = RegionVars(answer.region) /\ pc' = "uncapped"
    /\ UNCHANGED <<all_words, words, placements, puzzle, outcome, solves, calls>>
    /\ UNCHANGED side

\* a library user calls encoder.extract_placements(&model) with its own model
ExtractDirect ==
    /\ pc = "idle"
    /\ calls = 0
    /\ \E m \in DirectModels :
        /\ model' = m
        /\ placements' \in ExtractPlacements(m, DirectGrid.words, DirectGrid.size)
    /\ words' = DirectGrid.words
    /\ size' = DirectGrid.size
    /\ pc' = "extracted"
    /\ UNCHANGED <<all_words, puzzle, outcome, solves, calls>>
    /\ UNCHANGED side

\* generate_crossword on a dictionary of the order of the selection's limits,
\* followed up to its call of solve_with_iterations
SelectDirect ==
    /\ pc = "idle"
    /\ calls = 0
    /\ \E i \in SelectInputs :
        /\ all_words' = i.all_words
        /\ size' = i.size
        /\ words' \in SelectWords(i.all_words, i.size)
    /\ pc' = "selected"
    /\ UNCHANGED <<model, placements, puzzle, outcome, solves, calls>>
    /\ UNCHANGED side

Next ==
    \/ Generate
    \/ SolveSat
    \/ SolveUnsat
    \/ SolveError
    \/ Extract
    \/ Assemble
    \/ BuildDirect
    \/ SolveConn
    \/ ExtractDirect
    \/ SelectDirect
    \/ SolveCap

Spec == Init /\ [][Next]_vars

(***************************************************************************)
(* The connectivity clauses on their own.  Every model of the formula      *)
(* encode builds satisfies, in particular, the clauses of                  *)
(* add_connectivity_constraint, so what holds in every model of these      *)
(* clauses alone holds in every model of the whole formula.                *)
(***************************************************************************)
(* The generation run of main (cli/main.rs): count jobs, each one          *)
(* generate_crossword call, run by rayon in any order and collected by     *)
(* filter_map.  A job is pending, running, ok (its call returned           *)
(* Ok(puzzle)) or failed (its call returned Err).                          *)
(***************************************************************************)
\* the greatest count argument explored
MaxJobs == 4

NewRun(count) ==
    [count |-> count, job |-> [j \in 1 .. count |-> "pending"], phase |-> "jobs",
     successful |-> 0, failed |-> 0, result |-> "none"]

\* the jobs collected before the first failed one
PuzzlesUntilFailure(job) ==
    {j \in DOMAIN job : \A i \in 1 .. j : job[i] = "ok"}

\* the jobs whose closure returned Some(puzzle): what collect keeps
Puzzles(job) == {j \in DOMAIN job : job[j] = "ok"}

InitRun ==
    /\ Idle
    /\ \E count \in 0 .. MaxJobs : run = NewRun(count)
    /\ wasm = NoWasm
    /\ dict = NoDict
    /\ Quiet

\* a worker thread takes job j
JobStart(j) ==
    /\ run.phase = "jobs"
    /\ run.job[j] = "pending"
    /\ run' = [run EXCEPT !.job[j] = "running"]
    /\ UNCHANGED <<gen, wasm, dict, others>>

\* generate_crossword returns Ok(puzzle): the closure yields Some(puzzle)
JobOk(j) ==
    /\ run.phase = "jobs"
    /\ run.job[j] = "running"
    /\ run' = [run EXCEPT !.job[j] = "ok"]
    /\ UNCHANGED <<gen, wasm, dict, others>>

\* generate_crossword returns Err(e): a warning is printed, the closure
\* yields None
JobErr(j) ==
    /\ run.phase = "jobs"
    /\ run.job[j] = "running"
    /\ run' = [run EXCEPT !.job[j] = "failed"]
    /\ UNCHANGED <<gen, wasm, dict, others>>

\* collect returns once every job has finished; the counts are reported and
\* the run bails when puzzles is empty
Collect ==
    /\ run.phase = "jobs"
    /\ \A j \in DOMAIN run.job : run.job[j] \in {"ok", "failed"}
    /\ LET puzzles == Puzzles(run.job)
       IN  run' = [run EXCEPT !.phase = "collected",
                              !.successful = Cardinality(puzzles),
                              !.failed = run.count - Cardinality(puzzles),
                              !.result = IF puzzles = {} THEN "failed" ELSE "continues"]
    /\ UNCHANGED <<gen, wasm, dict, others>>

NextRun ==
    \/ \E j \in DOMAIN run.job : JobStart(j)
    \/ \E j \in DOMAIN run.job : JobOk(j)
    \/ \E j \in DOMAIN run.job : JobErr(j)
    \/ Collect

SpecRun == InitRun /\ [][NextRun]_vars

(***************************************************************************)
(* The wasm interface (wasm/src/lib.rs) after initialize(): the step-wise  *)
(* generation, encode_problem(size) followed by solve_problem().  A flow   *)
(* is one caller making the two calls; the calls of different flows come   *)
(* in any order.  ENCODER_STATE holds None or Some(problem).               *)
(***************************************************************************)
\* the number of callers
MaxFlows == 2

WasmSizes == {3, 4, 5}

\* DICTIONARY
WasmWords == SquareWords \cup FourWords

NewFlow == [pc |-> "start", problem |-> None, taken |-> None, result |-> "none"]

InitWasm ==
    /\ Idle
    /\ run = NoRun
    /\ wasm = [state |-> None, flow |-> [j \in 1 .. MaxFlows |-> NewFlow]]
    /\ dict = NoDict
    /\ Quiet

\* encode_problem(n) called by flow j: the words are selected, encoded, and
\* the encoder, the words and the size are stored in ENCODER_STATE
EncodeProblem(j) ==
    /\ wasm.flow[j].pc = "start"
    /\ \E n \in WasmSizes :
        \E ws \in SelectWords(WasmWords, n) :
            LET problem == [owner |-> j, words |-> ws, size |-> n]
            IN  wasm' = [wasm EXCEPT !.state = Some(problem),
                                     !.flow[j].pc = "encoded",
                                     !.flow[j].problem = Some(problem)]
    /\ UNCHANGED <<gen, run, dict, others>>

\* solve_problem() called by flow j: state_lock.take() yields the stored
\* problem, which is solved and assembled
SolveProblem(j) ==
    /\ wasm.flow[j].pc = "encoded"
    /\ wasm.state /= None
    /\ wasm' = [wasm EXCEPT !.state = None,
                            !.flow[j].pc = "solved",
                            !.flow[j].taken = wasm.state,
                            !.flow[j].result = "solved"]
    /\ UNCHANGED <<gen, run, dict, others>>

\* solve_problem() called by flow j when ENCODER_STATE is None
SolveNothing(j) ==
    /\ wasm.flow[j].pc = "encoded"
    /\ wasm.state = None
    /\ wasm' = [wasm EXCEPT !.flow[j].pc = "solved",
                            !.flow[j].result = "No encoded problem"]
    /\ UNCHANGED <<gen, run, dict, others>>

NextWasm ==
    \/ \E j \in DOMAIN wasm.flow : EncodeProblem(j)
    \/ \E j \in DOMAIN wasm.flow : SolveProblem(j)
    \/ \E j \in DOMAIN wasm.flow : SolveNothing(j)

SpecWasm == InitWasm /\ [][NextWasm]_vars

(***************************************************************************)
(* The dictionary (dictionary.rs): Dictionary::new over a dictionary text, *)
(* then get_clue calls.  dict.text is the set of the lines read,           *)
(* dict.word and dict.clue are the argument and the result of the last     *)
(* get_clue call.                                                          *)
(***************************************************************************)
InitDict ==
    /\ Idle
    /\ run = NoRun
    /\ wasm = NoWasm
    /\ Quiet
    /\ \E lines \in Texts :
          \E new \in {NewDictionary(lines)} :
             dict = [text |-> Range(lines), entries |-> new.entries, words |-> new.words,
                     word |-> None, clue |-> None]

CallGetClue(word) ==
    /\ dict' = [dict EXCEPT !.word = Some(word), !.clue = Some(GetClue(dict, word))]
    /\ UNCHANGED <<gen, run, wasm, others>>

NextDict == \E word \in Lookups : CallGetClue(word)

SpecDict == InitDict /\ [][NextDict]_vars

(***************************************************************************)
(* at_least_k on its own (encoder.rs): the sequential counter over n       *)
(* inputs with the threshold k, and the backend's models of the clauses    *)
(* the call emits.  counter is the call made, model the model returned.    *)
(***************************************************************************)
\* the greatest number of inputs explored
MaxInputs == 4

\* the inputs of the call: vars[i - 1] of the source is XVar(i)
XVar(i) == <<"x", i>>

Inputs(n) == [i \in 1 .. n |-> XVar(i)]

\* the auxiliary variables in the order new_var mints them, from row i on
RECURSIVE AuxRows(_, _, _)
AuxRows(i, n, k) ==
    IF i > n THEN <<>>
    ELSE [j \in 1 .. Min2(k, i) + 1 |-> AuxVar("direct", i, j - 1)] \o AuxRows(i + 1, n, k)

\* the variables of the call: the inputs, then the auxiliary variables
CounterVarSeq(n, k) ==
    Inputs(n)
    \o (IF AtLeastKVars(Inputs(n), k, "direct") = {} THEN <<>>
        ELSE <<AuxVar("direct", 0, 0)>> \o AuxRows(1, n, k))

\* every model of the clauses of at_least_k(inputs, k), by extension one
\* variable at a time
DirectCounterModels(n, k) ==
    LET seq == CounterVarSeq(n, k)
    IN  Range(ExtendVars(<<{}>>, seq, 1, TagByLast(AtLeastK(Inputs(n), k, "direct"), seq)))

InitCounter ==
    /\ Idle
    /\ run = NoRun
    /\ wasm = NoWasm
    /\ dict = NoDict
    /\ Quiet

\* at_least_k(inputs, k) is called on a fresh formula, and the backend
\* returns a model of its clauses
CallAtLeastK(n, k) ==
    /\ counter = None
    /\ counter' = Some([n |-> n, k |-> k])
    /\ model' \in DirectCounterModels(n, k)
    /\ UNCHANGED <<pc, all_words, size, words, placements, puzzle, outcome, solves, calls>>
    /\ UNCHANGED <<run, wasm, dict, seeded, latex, api>>

NextCounter == \E n \in 1 .. MaxInputs : \E k \in 0 .. n + 1 : CallAtLeastK(n, k)

SpecCounter == InitCounter /\ [][NextCounter]_vars

(***************************************************************************)
(* main run more than once (cli/main.rs): every run parses its arguments,  *)
(* seeds a StdRng it does not keep when --seed is given, and selects the   *)
(* words of a puzzle by shuffling with rand::thread_rng(), the generator   *)
(* of the thread, which the operating system seeds.  seeded is the         *)
(* sequence of the runs made: the seed given, the dictionary, the grid     *)
(* size, and the words handed to solve_with_iterations.                    *)
(***************************************************************************)
MaxRuns == 2

\* args.seed
Seeds == {None, Some(1), Some(2)}

\* a group of one word more than the loop takes from it, and a group it
\* takes whole
SeedInputs ==
    {[size |-> 3, all_words |-> SyntheticWords(3 :> 15)],
     [size |-> 3, all_words |-> SyntheticWords(3 :> 14)]}

\* rand::rngs::StdRng::seed_from_u64(seed): the generator the seed gives
SeedFromU64(seed) == [rng |-> "StdRng", seed |-> seed]

InitSeed ==
    /\ Idle
    /\ run = NoRun
    /\ wasm = NoWasm
    /\ dict = NoDict
    /\ Quiet

\* one run of main up to the solver call of its first puzzle: the value of
\* seed_from_u64 is dropped at the end of its statement, and
\* generate_crossword shuffles with thread_rng()
Main(seed, i) ==
    /\ Len(seeded) < MaxRuns
    /\ \E dropped \in {IF seed = None THEN None ELSE Some(SeedFromU64(seed[1]))} :
          \E ws \in SelectWords(i.all_words, i.size) :
             seeded' = Append(seeded, [seed |-> seed, all_words |-> i.all_words,
                                       size |-> i.size, words |-> ws])
    /\ UNCHANGED gen
    /\ UNCHANGED <<run, wasm, dict, counter, latex, api>>

MainSeeded == \E seed \in Seeds \ {None} : \E i \in SeedInputs : Main(seed, i)

MainUnseeded == \E i \in SeedInputs : Main(None, i)

NextSeed == MainSeeded \/ MainUnseeded

SpecSeed == InitSeed /\ [][NextSeed]_vars

(***************************************************************************)
(* escape_latex (cli/latex.rs) on its own.  A string is the sequence of    *)
(* its characters.  latex is the call made: its input and its output.      *)
(***************************************************************************)
\* str::replace(from, to) for a character from: every occurrence of from, left
\* to right, gives the characters of to
Replace(s, from, to) ==
    LET hits(i) == Cardinality({m \in 1 .. (i - 1) : s[m] = from})
        start(i) == i + (Len(to) - 1) * hits(i)
        total == Len(s) + (Len(to) - 1) * hits(Len(s) + 1)
    IN  <<>> \o [j \in 1 .. total |->
                   LET i == CHOOSE i \in DOMAIN s : start(i) <= j /\ j < start(i + 1)
                   IN  IF s[i] = from THEN to[j - start(i) + 1] ELSE s[i]]

\* the chain of replace calls, each on the result of the one before
escape_latex(s) ==
    LET r1 == Replace(s, "\\",
                      <<"\\", "t", "e", "x", "t", "b", "a", "c", "k",
                        "s", "l", "a", "s", "h", "{", "}">>)
        r2 == Replace(r1, "&", <<"\\", "&">>)
        r3 == Replace(r2, "%", <<"\\", "%">>)
        r4 == Replace(r3, "$", <<"\\", "$">>)
        r5 == Replace(r4, "#", <<"\\", "#">>)
        r6 == Replace(r5, "_", <<"\\", "_">>)
        r7 == Replace(r6, "{", <<"\\", "{">>)
        r8 == Replace(r7, "}", <<"\\", "}">>)
        r9 == Replace(r8, "~",
                      <<"\\", "t", "e", "x", "t", "a", "s", "c", "i",
                        "i", "t", "i", "l", "d", "e", "{", "}">>)
        r10 == Replace(r9, "^",
                      <<"\\", "t", "e", "x", "t", "a", "s", "c", "i",
                        "i", "c", "i", "r", "c", "u", "m", "{", "}">>)
    IN  r10

\* the characters of the inputs: the ten the chain replaces, a letter and a
\* space
LatexChars == {"\\", "&", "%", "$", "#", "_", "{", "}", "~", "^", "a", " "}

MaxChars == 2

LatexInputs == UNION {[1 .. n -> LatexChars] : n \in 0 .. MaxChars}

InitLatex ==
    /\ Idle
    /\ run = NoRun
    /\ wasm = NoWasm
    /\ dict = NoDict
    /\ Quiet

EscapeLatex(s) ==
    /\ latex = None
    /\ latex' = Some([input |-> s, output |-> escape_latex(s)])
    /\ UNCHANGED gen
    /\ UNCHANGED <<run, wasm, dict, counter, seeded, api>>

NextLatex == \E s \in LatexInputs : EscapeLatex(s)

SpecLatex == InitLatex /\ [][NextLatex]_vars

(***************************************************************************)
(* The wasm interface (wasm/src/lib.rs) with its two global locks.  The    *)
(* callers of Callers call initialize, estimate_problem_size,              *)
(* encode_problem, solve_problem and generate_crossword in any order, at   *)
(* the same time.  A lock() waits until the mutex is free; a guard is      *)
(* released when its function returns.  api holds                          *)
(*   dictionary  DICTIONARY is Some                                        *)
(*   state       ENCODER_STATE: None or Some(number of the encoding)       *)
(*   dict_owner, state_owner  the caller holding each mutex, 0 for none    *)
(*   caller      for each caller its call, its position in it, the         *)
(*               encoding state_lock.take() gave it (0 for none) and the   *)
(*               result of its last call                                   *)
(*   log         the stores to and the takes from ENCODER_STATE, in order  *)
(*   encoded, calls  the encodings and the calls made                      *)
(***************************************************************************)
MaxApiCalls == 4

Callers == {1, 2}

ApiCalls ==
    {"initialize", "estimate_problem_size", "encode_problem", "solve_problem",
     "generate_crossword"}

NotInitialized == "Dictionary not initialized"

NoEncodedProblem == "No encoded problem - call encode_problem first"

\* solve_encoded: Ok, or an Err (UNSAT, no placements, solver error)
SolveOutcomes == {"puzzle", "Solver failed"}

NewCaller == [call |-> "none", pc |-> "idle", taken |-> None, result |-> "none"]

\* what state_lock.take() leaves in ENCODER_STATE
AfterTakeKept(stored) == stored

AfterTake(stored) == None

\* what the Option in ENCODER_STATE holds after *state_lock = Some(..)
StoreOver(stored, id) == Some(id)

InitApi ==
    /\ Idle
    /\ run = NoRun
    /\ wasm = NoWasm
    /\ dict = NoDict
    /\ counter = None
    /\ seeded = None
    /\ latex = None
    /\ api = [dictionary |-> FALSE, state |-> None, dict_owner |-> 0, state_owner |-> 0,
              caller |-> [t \in Callers |-> NewCaller], log |-> <<>>,
              encoded |-> 0, calls |-> 0]

ApiUnchanged ==
    /\ UNCHANGED gen
    /\ UNCHANGED <<run, wasm, dict, counter, seeded, latex>>

\* caller t, idle, calls f
Call(t, f) ==
    /\ api.caller[t].pc = "idle"
    /\ api.calls < MaxApiCalls
    /\ api' = [api EXCEPT !.calls = @ + 1,
                          !.caller[t] = [call |-> f, pc |-> "entered", taken |-> None,
                                         result |-> "none"]]
    /\ ApiUnchanged

\* initialize(): the dictionary is built, DICTIONARY locked and set, and the
\* guard dropped on return
Initialize(t) ==
    /\ api.caller[t].call = "initialize" /\ api.caller[t].pc = "entered"
    /\ api.dict_owner = 0
    /\ api' = [api EXCEPT !.dictionary = TRUE,
                          !.caller[t].pc = "idle",
                          !.caller[t].result = "stats"]
    /\ ApiUnchanged

\* estimate_problem_size(n) and generate_crossword(n): DICTIONARY is locked
\* for the whole of the call, and no other lock is taken
DictionaryOnly(t) ==
    /\ api.caller[t].call \in {"estimate_problem_size", "generate_crossword"}
    /\ api.caller[t].pc = "entered"
    /\ api.dict_owner = 0
    /\ \E r \in (IF ~api.dictionary THEN {NotInitialized}
                 ELSE IF api.caller[t].call = "estimate_problem_size" THEN {"estimate"}
                 ELSE SolveOutcomes) :
          api' = [api EXCEPT !.caller[t].pc = "idle", !.caller[t].result = r]
    /\ ApiUnchanged

\* encode_problem(n) locks DICTIONARY: without a dictionary it returns the
\* error; with one it keeps the guard, selects the words and encodes them
EncodeLockDictionary(t) ==
    /\ api.caller[t].call = "encode_problem" /\ api.caller[t].pc = "entered"
    /\ api.dict_owner = 0
    /\ api' = IF api.dictionary
              THEN [api EXCEPT !.dict_owner = t, !.caller[t].pc = "encoded"]
              ELSE [api EXCEPT !.caller[t].pc = "idle",
                               !.caller[t].result = NotInitialized]
    /\ ApiUnchanged

\* encode_problem, holding DICTIONARY, locks ENCODER_STATE, stores the
\* encoding and returns: both guards are dropped
EncodeLockState(t) ==
    /\ api.caller[t].call = "encode_problem" /\ api.caller[t].pc = "encoded"
    /\ api.state_owner = 0
    /\ api' = [api EXCEPT !.state = StoreOver(api.state, api.encoded + 1),
                          !.encoded = @ + 1,
                          !.log = Append(@, [op |-> "store", id |-> api.encoded + 1]),
                          !.dict_owner = 0,
                          !.caller[t].pc = "idle",
                          !.caller[t].result = "encoding"]
    /\ ApiUnchanged

\* solve_problem() locks ENCODER_STATE and takes what it holds: with None it
\* returns the error; with an encoding it keeps the guard
SolveLockState(t) ==
    /\ api.caller[t].call = "solve_problem" /\ api.caller[t].pc = "entered"
    /\ api.state_owner = 0
    /\ api' = IF api.state = None
              THEN [api EXCEPT !.log = Append(@, [op |-> "take", id |-> 0]),
                               !.caller[t].taken = Some(0),
                               !.caller[t].pc = "idle",
                               !.caller[t].result = NoEncodedProblem]
              ELSE [api EXCEPT !.state = AfterTake(api.state),
                               !.log = Append(@, [op |-> "take", id |-> api.state[1]]),
                               !.state_owner = t,
                               !.caller[t].taken = api.state,
                               !.caller[t].pc = "taken"]
    /\ ApiUnchanged

\* solve_problem, holding ENCODER_STATE, locks DICTIONARY, solves the
\* encoding it took and returns: both guards are dropped
SolveLockDictionary(t) ==
    /\ api.caller[t].call = "solve_problem" /\ api.caller[t].pc = "taken"
    /\ api.dict_owner = 0
    /\ \E r \in (IF api.dictionary THEN SolveOutcomes ELSE {NotInitialized}) :
          api' = [api EXCEPT !.state_owner = 0,
                             !.caller[t].pc = "idle",
                             !.caller[t].result = r]
    /\ ApiUnchanged

NextApi ==
    \/ \E t \in Callers : \E f \in ApiCalls : Call(t, f)
    \/ \E t \in Callers : Initialize(t)
    \/ \E t \in Callers : DictionaryOnly(t)
    \/ \E t \in Callers : EncodeLockDictionary(t)
    \/ \E t \in Callers : EncodeLockState(t)
    \/ \E t \in Callers : SolveLockState(t)
    \/ \E t \in Callers : SolveLockDictionary(t)

SpecApi == InitApi /\ [][NextApi]_vars

(***************************************************************************)
(* Properties.                                                             *)
(***************************************************************************)
\* generate_crossword has returned Ok(puzzle)
Returned == pc = "done" /\ outcome = "puzzle"

\* a puzzle has been built, by the generator or by a direct call
Built == puzzle /= None

ThePuzzle == puzzle[1]

InGrid(c, n) == c[1] >= 0 /\ c[1] < n /\ c[2] >= 0 /\ c[2] < n

FilledOf(grid) == {c \in DOMAIN grid : grid[c] /= None}

\* the cell d steps after c in a direction
Ahead(c, horizontal, d) ==
    IF horizontal THEN <<c[1] + d, c[2]>> ELSE <<c[1], c[2] + d>>

IsFilledAt(grid, n, c) == InGrid(c, n) /\ grid[c] /= None

\* c is the first cell of a maximal run of at least two filled cells
IsRunStart(grid, n, c, horizontal) ==
    /\ IsFilledAt(grid, n, c)
    /\ ~IsFilledAt(grid, n, Ahead(c, horizontal, -1))
    /\ IsFilledAt(grid, n, Ahead(c, horizontal, 1))

RunLength(grid, n, c, horizontal) ==
    CHOOSE len \in 1 .. n :
        /\ \A d \in 0 .. len - 1 : IsFilledAt(grid, n, Ahead(c, horizontal, d))
        /\ ~IsFilledAt(grid, n, Ahead(c, horizontal, len))

RunWord(grid, n, c, horizontal) ==
    [k \in 1 .. RunLength(grid, n, c, horizontal) |->
        grid[Ahead(c, horizontal, k - 1)][1]]

EntriesOf(p, horizontal) == IF horizontal THEN p.across_clues ELSE p.down_clues

EntriesAt(p, c, horizontal) ==
    {k \in DOMAIN EntriesOf(p, horizontal) :
        EntriesOf(p, horizontal)[k].x = c[1] /\ EntriesOf(p, horizontal)[k].y = c[2]}

\* C1: in every puzzle the generator returns, every maximal horizontal
\* (vertical) run of at least two filled cells spells a candidate word and is
\* the word of exactly one across (down) entry located at the run's first
\* cell, and every entry and every selected placement is such a maximal run.
RunsAreEntries ==
    Returned =>
        \A horizontal \in BOOLEAN :
            /\ \A c \in Cells(size) :
                IsRunStart(ThePuzzle.grid, size, c, horizontal) =>
                    /\ RunWord(ThePuzzle.grid, size, c, horizontal) \in words
                    /\ Cardinality(EntriesAt(ThePuzzle, c, horizontal)) = 1
                    /\ \A k \in EntriesAt(ThePuzzle, c, horizontal) :
                        EntriesOf(ThePuzzle, horizontal)[k].word
                            = RunWord(ThePuzzle.grid, size, c, horizontal)
            /\ \A k \in DOMAIN EntriesOf(ThePuzzle, horizontal) :
                LET e == EntriesOf(ThePuzzle, horizontal)[k]
                IN  /\ IsRunStart(ThePuzzle.grid, size, <<e.x, e.y>>, horizontal)
                    /\ RunWord(ThePuzzle.grid, size, <<e.x, e.y>>, horizontal) = e.word
            /\ \A k \in DOMAIN placements :
                placements[k].horizontal = horizontal =>
                    /\ IsRunStart(ThePuzzle.grid, size,
                                  <<placements[k].x, placements[k].y>>, horizontal)
                    /\ RunWord(ThePuzzle.grid, size,
                               <<placements[k].x, placements[k].y>>, horizontal)
                           = placements[k].word

\* C1 witness: a returned 4 x 4 puzzle with a run shorter than the grid (CAT)
RunsAreEntriesWitness ==
    /\ Returned
    /\ size = 4
    /\ \E k \in DOMAIN ThePuzzle.across_clues : ThePuzzle.across_clues[k].word = CAT
    /\ Len(ThePuzzle.down_clues) >= 3

\* 4-adjacency
Adjacent(c, d) ==
    (c[1] = d[1] /\ (c[2] = d[2] + 1 \/ d[2] = c[2] + 1))
    \/ (c[2] = d[2] /\ (c[1] = d[1] + 1 \/ d[1] = c[1] + 1))

RECURSIVE Flood(_, _)
Flood(reached, filled) ==
    LET more == {c \in filled : c \in reached \/ \E d \in reached : Adjacent(c, d)}
    IN  IF more = reached THEN reached ELSE Flood(more, filled)

ModelFilled == {c \in Cells(size) : FVar(c[1], c[2]) \in model}

ModelAnchors == {c \in Cells(size) : StartVar(c[1], c[2]) \in model}

\* C2: in every satisfying assignment the filled cells form a single
\* 4-connected component: there is one anchor cell, it is filled, and every
\* filled cell is joined to it by a path of 4-adjacent filled cells; hence the
\* filled cells of every returned puzzle are 4-connected.
FilledCellsConnected ==
    /\ (pc \in {"model", "extract"} /\ ModelFilled /= {}) =>
        /\ Cardinality(ModelAnchors) = 1
        /\ ModelAnchors \subseteq ModelFilled
        /\ Flood(ModelAnchors, ModelFilled) = ModelFilled
    /\ Returned =>
        \A c \in FilledOf(ThePuzzle.grid) :
            Flood({c}, FilledOf(ThePuzzle.grid)) = FilledOf(ThePuzzle.grid)

\* C2 witness: a model with five filled cells, one of them not next to the anchor
FilledCellsConnectedWitness ==
    /\ pc = "model"
    /\ Cardinality(ModelFilled) = 5
    /\ \E c \in ModelFilled : \A a \in ModelAnchors : c /= a /\ ~Adjacent(c, a)

\* K_min = max(15, floor(N^2 / 2))
KMin(n) == Max2(15, (n * n) \div 2)

\* C3: every puzzle the generator returns for grid size N has at least K_min
\* filled cells, also when K_min exceeds the number of cells.
MinimumDensity ==
    Returned => Cardinality(FilledOf(ThePuzzle.grid)) >= KMin(size)

\* the in-grid cells just before the first and just after the last cell
EndCells(pv, n) ==
    {c \in {Ahead(<<PX(pv), PY(pv)>>, PHoriz(pv), -1),
            Ahead(<<PX(pv), PY(pv)>>, PHoriz(pv), Len(PWord(pv)))} : InGrid(c, n)}

TruePlacements == {v \in model : v[1] = "p"}

\* C4: in no satisfying assignment is a placement true while the in-grid cell
\* just before its first cell or just after its last cell holds a letter; with
\* CAT and CATS among the candidates, CAT is never placed with an S after it.
BoundaryEnforced ==
    pc = "extract" =>
        \A pv \in TruePlacements :
            \A c \in EndCells(pv, size) :
                \A ch \in Chars(words) : GVar(c[1], c[2], ch) \notin model

\* C4 witness: CAT and CATS are candidates and the model places CAT across
\* with an in-grid cell after it, where CATS would have put its S
BoundaryEnforcedWitness ==
    /\ pc = "extract"
    /\ {CAT, CATS} \subseteq words
    /\ \E pv \in TruePlacements :
        /\ PWord(pv) = CAT
        /\ PHoriz(pv)
        /\ InGrid(Ahead(<<PX(pv), PY(pv)>>, TRUE, 3), size)

\* C5: in every satisfying assignment two true placements that cover the same
\* cell give it the same letter, so in the returned puzzle every placement
\* reads its own letters in the grid, whatever the order of writing.
SharedCellsAgree ==
    /\ pc = "extract" =>
        \A pv \in TruePlacements, qv \in TruePlacements :
            \A i \in 0 .. Len(PWord(pv)) - 1, j \in 0 .. Len(PWord(qv)) - 1 :
                PCell(pv, i) = PCell(qv, j) => PWord(pv)[i + 1] = PWord(qv)[j + 1]
    /\ Returned =>
        /\ \A k \in DOMAIN placements :
            \A i \in 0 .. Len(placements[k].word) - 1 :
                ThePuzzle.grid[PlacementCell(placements[k], i)]
                    = Some(placements[k].word[i + 1])
        /\ ThePuzzle.grid = GridOf(Reverse(placements), size)

\* C5 witness: a returned puzzle in which an across and a down placement cross
SharedCellsAgreeWitness ==
    /\ Returned
    /\ \E k \in DOMAIN placements, l \in DOMAIN placements :
        /\ placements[k].horizontal
        /\ ~placements[l].horizontal
        /\ PlacementCells(placements[k]) \cap PlacementCells(placements[l]) /= {}

\* C6: every returned puzzle has at least one across and one down entry.
BothOrientations ==
    Returned =>
        /\ Len(ThePuzzle.across_clues) >= 1
        /\ Len(ThePuzzle.down_clues) >= 1

\* C6 witness: a returned puzzle with across and down entries
BothOrientationsWitness ==
    /\ Returned
    /\ ThePuzzle.across_clues /= <<>>
    /\ ThePuzzle.down_clues /= <<>>

\* the numbering rule: filled, and the start of an across or of a down run
RuleNumbered(grid, n, c) ==
    /\ IsFilledAt(grid, n, c)
    /\ \/ (~IsFilledAt(grid, n, <<c[1] - 1, c[2]>>) /\ IsFilledAt(grid, n, <<c[1] + 1, c[2]>>))
       \/ (~IsFilledAt(grid, n, <<c[1], c[2] - 1>>) /\ IsFilledAt(grid, n, <<c[1], c[2] + 1>>))

RowMajorBefore(d, c) == d[2] < c[2] \/ (d[2] = c[2] /\ d[1] < c[1])

RuleNumberedCells(grid, n) == {c \in Cells(n) : RuleNumbered(grid, n, c)}

\* the number of c when the cells in numbered are counted from 1 in row-major
\* order, 0 when c is not one of them
RuleNumber(numbered, c) ==
    IF c \in numbered
    THEN 1 + Cardinality({d \in numbered : RowMajorBefore(d, c)})
    ELSE 0

Ascending(clues) ==
    \A k \in 1 .. Len(clues) - 1 : clues[k].number <= clues[k + 1].number

ExamplePlacements ==
    {Placement(CAT, 0, 0, TRUE), Placement(CAR, 0, 0, FALSE), Placement(TAR, 2, 0, FALSE)}

IsExample ==
    pc = "built" /\ size = 5 /\ Len(placements) = 3 /\ Range(placements) = ExamplePlacements

ExampleAnswer ==
    /\ ThePuzzle.across_clues = <<[number |-> 1, word |-> CAT, x |-> 0, y |-> 0]>>
    /\ ThePuzzle.down_clues = <<[number |-> 1, word |-> CAR, x |-> 0, y |-> 0],
                                [number |-> 2, word |-> TAR, x |-> 2, y |-> 0]>>

\* C7: scanning in row-major order, a cell gets the next number from 1 iff it
\* is filled and starts an across or a down run; every clue carries the number
\* of its origin cell, at least 1 in a generated puzzle; each list ascends by
\* number; the LaTeX renderer prints the same numbers; and the placements
\* CAT across (0,0), CAR down (0,0), TAR down (2,0) on 5 x 5 give across
\* 1 CAT and down 1 CAR, 2 TAR.
NumberingRule ==
    Built =>
        LET numbered == RuleNumberedCells(ThePuzzle.grid, size)
            cell_numbers == CellNumbers(ThePuzzle.grid, size)
            latex_numbers == LatexNumbers(ThePuzzle.grid, size)
        IN  /\ \A c \in Cells(size) :
                /\ cell_numbers[c] = RuleNumber(numbered, c)
                /\ latex_numbers[c] = IF RuleNumber(numbered, c) = 0
                                      THEN None
                                      ELSE Some(RuleNumber(numbered, c))
            /\ \A horizontal \in BOOLEAN :
                /\ \A k \in DOMAIN EntriesOf(ThePuzzle, horizontal) :
                    LET e == EntriesOf(ThePuzzle, horizontal)[k]
                    IN  /\ e.number = RuleNumber(numbered, <<e.x, e.y>>)
                        /\ Returned => e.number >= 1
                /\ Ascending(EntriesOf(ThePuzzle, horizontal))
            /\ IsExample => ExampleAnswer

\* C7 witness: the example has been built with the numbers the claim gives
NumberingRuleWitness == IsExample /\ ExampleAnswer

\* density * N^2, to the nearest integer (density is a single-precision value)
DensityTimesCells(density, n) ==
    IF density.e = 0 THEN density.m * n * n
    ELSE (density.m * n * n + 2^(density.e - 1)) \div 2^density.e

LetterSlots == {<<k, i>> \in (DOMAIN placements) \X (1 .. 15) : i <= Len(placements[k].word)}

\* C8: for every puzzle built by from_placements, total_letters is the sum of
\* the lengths of the placed words, word_count is the number of placements
\* (across entries plus down entries), and density * N^2 is the number of
\* distinct cells the placements cover, which is the number of non-empty cells
\* of the grid and lies between 0 and N^2.
MetadataCounts ==
    Built =>
        LET m == ThePuzzle.metadata
            covered == UNION {PlacementCells(placements[k]) : k \in DOMAIN placements}
        IN  /\ m.total_letters = Cardinality(LetterSlots)
            /\ m.word_count = Len(placements)
            /\ m.word_count = Len(ThePuzzle.across_clues) + Len(ThePuzzle.down_clues)
            /\ DensityTimesCells(m.density, size) = Cardinality(covered)
            /\ m.density = F32Div(Cardinality(covered), size * size)
            /\ Cardinality(covered) = Cardinality(FilledOf(ThePuzzle.grid))
            /\ Cardinality(covered) >= 0
            /\ Cardinality(covered) <= size * size

\* C8 witness: a puzzle built from placements that share cells
MetadataCountsWitness ==
    /\ pc = "built"
    /\ Len(placements) = 3
    /\ ThePuzzle.metadata.total_letters = 9
    /\ Cardinality(FilledOf(ThePuzzle.grid)) = 7

\* C9: when no candidate word fits in the grid, a call that the backend
\* answers ends with Unsat, never with a puzzle or another error.
NoFitIsUnsat ==
    (pc = "done" /\ Suitable(all_words, size) = {} /\ outcome /= "SolverError")
        => outcome = "Unsat"

ProblemOf == [words |-> words, size |-> size]

\* C10: the outcome of a call is exactly one of puzzle, Unsat (the formula has
\* no model), NoPlacements (a model, but no true placement variable), NoModel
\* and SolverError; the backend is asked once, with no retry; and a puzzle is
\* never returned with an empty placement list.
OutcomeTaxonomy ==
    /\ outcome \in {"none", "puzzle", "Unsat", "NoPlacements", "NoModel", "SolverError"}
    /\ (pc = "done") <=> (outcome /= "none")
    /\ solves <= 1
    /\ pc = "done" => solves = 1
    /\ outcome = "puzzle" => (puzzle /= None /\ placements /= <<>>)
    /\ outcome \in {"Unsat", "NoPlacements", "NoModel", "SolverError"} => puzzle = None
    /\ outcome = "Unsat" => ModelTable[ProblemOf] = {}
    /\ outcome = "NoPlacements" => (ModelTable[ProblemOf] /= {} /\ placements = <<>>)

\* C10 witness: a call that ended with NoPlacements after one solve
OutcomeTaxonomyWitness ==
    /\ pc = "done"
    /\ outcome = "NoPlacements"
    /\ solves = 1

\* the grid-letter variables true in the model that no placement of the
\* vector covers at their cell with their letter
UncoveredLetters ==
    {v \in model :
        /\ v[1] = "g"
        /\ ~\E k \in DOMAIN placements :
              \E i \in 0 .. Len(placements[k].word) - 1 :
                  /\ PlacementCell(placements[k], i) = <<v[2], v[3]>>
                  /\ placements[k].word[i + 1] = v[4]}

\* C11: extract_placements never returns a placement vector for a model in
\* which some true grid-letter variable is covered by no selected placement:
\* such a model is rejected.
InconsistentModelRejected ==
    pc = "extracted" => UncoveredLetters = {}

JobsIn(status) == {j \in DOMAIN run.job : run.job[j] = status}

\* C12: a generation run of count jobs counts every job exactly once, as a
\* success or as a failure (successful + failed = count); a failed job leaves
\* every sibling free to start, to finish and to be counted; and the run
\* fails if and only if no puzzle succeeded.
RunAccounting ==
    /\ run.phase = "collected" =>
        /\ run.successful + run.failed = run.count
        /\ run.successful = Cardinality(JobsIn("ok"))
        /\ run.failed = Cardinality(JobsIn("failed"))
        /\ JobsIn("ok") \cup JobsIn("failed") = 1 .. run.count
        /\ (run.result = "failed") <=> (run.successful = 0)
    /\ run.phase = "jobs" =>
        /\ run.result = "none"
        /\ \A j \in DOMAIN run.job :
            /\ run.job[j] = "pending" => ENABLED JobStart(j)
            /\ run.job[j] = "running" => (ENABLED JobOk(j) /\ ENABLED JobErr(j))

\* C12 witness: a run of three jobs whose first job failed and whose other
\* two jobs succeeded has been collected and goes on
RunAccountingWitness ==
    /\ run.phase = "collected"
    /\ run.count = 3
    /\ run.job[1] = "failed"
    /\ run.successful = 2
    /\ run.failed = 1
    /\ run.result = "continues"


\* C13: the encoder state is owned by one generation: under every
\* interleaving of step-wise generations, the problem a flow has encoded stays
\* in place until that flow solves it, and the solve step of a flow works on
\* the encoder, the words and the size its own encode step produced.
EncoderStateOwned ==
    \A j \in DOMAIN wasm.flow :
        /\ wasm.flow[j].pc = "encoded" => wasm.state = wasm.flow[j].problem
        /\ wasm.flow[j].pc = "solved" =>
            /\ wasm.flow[j].result = "solved"
            /\ wasm.flow[j].taken = wasm.flow[j].problem

\* the conditions the lexicon law states of the clue of a word
LawfulClue(w, clue) ==
    /\ ByteLen(clue) >= 10
    /\ ~Contains(ToLowercase(clue), ToLowercase(w))
    /\ ~Contains(clue, <<"*">>)
    /\ ~Contains(clue, <<")", " ">>)
    /\ ~EndsWith(clue, <<")">>)

\* C14: for every word w of words(), the clue get_clue(w) returns has at
\* least 10 characters, does not contain w whatever the case, contains no
\* '*' and no ") ", and does not end with ')'; and the clue a get_clue call
\* returned for such a word is the clue the filter of Dictionary::new
\* extracted from its definition.
LexiconLaw ==
    /\ \A w \in GetWords(dict) : LawfulClue(w, GetClue(dict, w))
    /\ (dict.word /= None /\ ToUppercase(dict.word[1]) \in GetWords(dict))
          => /\ LawfulClue(ToUppercase(dict.word[1]), dict.clue[1])
             /\ dict.clue[1] = ExtractClue(dict.entries[ToUppercase(dict.word[1])])

\* a dictionary that admits LARK, asked the clue of "lark"
LexiconLawWitness ==
    /\ dict.word = Some(<<"l", "a", "r", "k">>)
    /\ <<"L", "A", "R", "K">> \in GetWords(dict)
    /\ dict.clue /= None

\* C15: get_clue(word) returns "Definition not available" whenever the word
\* is unknown to the dictionary or its definition produced a clue that
\* fails a cleanliness condition of the filter: being "Definition not
\* available", containing the headword, being shorter than 10 characters,
\* beginning with "of ", containing ") " or '*', ending with ')'.
UncleanClueNotAvailable ==
    dict.word /= None =>
        LET w == ToUppercase(dict.word[1])
            clue == TheOne({ExtractClue(def) : def \in {dict.entries[w]}})
        IN  (\/ w \notin DOMAIN dict.entries
             \/ clue = DefinitionNotAvailable
             \/ ~LawfulClue(w, clue)
             \/ StartsWith(ToLowercase(clue), <<"o", "f", " ">>))
            => dict.clue = Some(DefinitionNotAvailable)

\* C18: an entry is accepted into words() if and only if its length is in
\* 3..15, it is all ASCII letters, its definition is not a prefix, suffix
\* or abbr. entry, and its clue is not "Definition not available", does not
\* contain the headword, has at least 10 characters, does not begin with
\* "of ", contain ") ", end with ")" or contain '*'.
AdmissibilityFilter ==
    \A w \in DOMAIN dict.entries :
        LET clue == TheOne({ExtractClue(def) : def \in {dict.entries[w]}})
        IN  w \in GetWords(dict)
            <=> /\ ByteLen(w) >= 3 /\ ByteLen(w) <= 15
                /\ \A i \in DOMAIN w : IsAsciiAlphabetic(w[i])
                /\ NotSpecial(w, dict.entries[w])
                /\ clue /= DefinitionNotAvailable
                /\ ~Contains(ToLowercase(clue), ToLowercase(w))
                /\ ByteLen(clue) >= 10
                /\ ~StartsWith(ToLowercase(clue), <<"o", "f", " ">>)
                /\ ~Contains(clue, <<")", " ">>)
                /\ ~EndsWith(clue, <<")">>)
                /\ ~Contains(clue, <<"*">>)

\* the limit M of a grid size, and the share p(L) of a length in hundredths
LimitOf(N) ==
    IF N <= 8 THEN 80
    ELSE IF N <= 10 THEN 120
    ELSE IF N <= 12 THEN 150
    ELSE IF N <= 15 THEN 130
    ELSE 100

ShareOf(L) == IF L <= 5 THEN 70 ELSE IF L <= 8 THEN 25 ELSE 5

BucketOf(L) == {w \in all_words : Len(w) = L}

\* the words accumulated once the lengths 3 .. L have been visited: nothing
\* is added once the limit is reached, and the limit cuts what is added
RECURSIVE Accumulated(_)
Accumulated(L) ==
    IF L < 3 THEN 0
    ELSE TheOne({IF before >= LimitOf(size) THEN before
                 ELSE Min2(LimitOf(size),
                           before + Min2(Cardinality(BucketOf(L)),
                                         Max2(8, (LimitOf(size) * ShareOf(L)) \div 400)))
                 : before \in {Accumulated(L - 1)}})

\* C16: the word selection for grid size N returns at most M words (80 for
\* N <= 8, 120 for N <= 10, 150 for N <= 12, 130 for N <= 15, else 100),
\* all of them words of the dictionary of length 3 .. min(N, 15); of each
\* length L, visited in increasing order, it takes
\* min(|bucket|, max(8, floor(M * p(L) / 4))) words, p = 0.70 for L <= 5,
\* 0.25 for L <= 8, else 0.05, none once the count has reached M, and
\* it cuts the result to M words.
WordSelection ==
    pc \in {"selected", "solve", "extract", "assemble", "done"} =>
        /\ Cardinality(words) <= LimitOf(size)
        /\ words \subseteq all_words
        /\ \A w \in words : Len(w) >= 3 /\ Len(w) <= Min2(size, 15)
        /\ \A L \in 3 .. Min2(size, 15) :
              Cardinality({w \in words : Len(w) = L}) = Accumulated(L) - Accumulated(L - 1)

\* a selection that reached the limit before the last length and was cut to it
WordSelectionWitness ==
    /\ pc = "selected"
    /\ size = 16
    /\ Cardinality(words) = 100
    /\ Cardinality({w \in words : Len(w) = 12}) = 1
    /\ \A w \in words : Len(w) <= 12
    /\ \E w \in all_words : Len(w) = 13

\* the vector with the placements at i and j exchanged
Exchanged(s, i, j) ==
    [k \in 1 .. Len(s) |-> IF k = i THEN s[j] ELSE IF k = j THEN s[i] ELSE s[k]]

\* orderings of a placement vector: the vector with any two of its placements
\* exchanged, and the iteration orders of its set
Orderings(s) ==
    {Exchanged(s, i, j) : i, j \in 1 .. Len(s)} \cup IterationOrders(Range(s))

\* C17: the assembler is deterministic in the placement set: from another
\* ordering of the placements the encoder yielded, from_placements builds
\* the same grid, the same cell numbers, the same across and down lists and
\* the same metadata as the puzzle returned.
AssemblerDeterministic ==
    Returned =>
        \A o \in Orderings(placements) :
            /\ FromPlacements(o, size) = ThePuzzle
            /\ CellNumbers(GridOf(o, size), size) = CellNumbers(ThePuzzle.grid, size)

\* a returned puzzle of four or more entries whose across clues came out of
\* the sort in another order than the placement vector had them
AssemblerDeterministicWitness ==
    /\ Returned
    /\ Len(placements) >= 4
    /\ [i \in 1 .. Len(ThePuzzle.across_clues) |-> ThePuzzle.across_clues[i].word]
          /= [i \in 1 .. Len(AcrossPlacements(placements)) |->
                 AcrossPlacements(placements)[i].word]

TrueLetters == {v \in model : v[1] = "g"}

\* the true placements that cover the cell (x, y) with the character ch
TrueCovering(x, y, ch) ==
    {pv \in TruePlacements :
        \E i \in 0 .. Len(PWord(pv)) - 1 :
            PCell(pv, i) = <<x, y>> /\ PWord(pv)[i + 1] = ch}

\* C19: in every satisfying assignment a letter variable g(x, y, c) is true
\* only if a true placement covers (x, y) with c, a cell is filled if and
\* only if one of its letter variables is true, and every filled cell has a
\* filled 4-neighbour.
LettersFromPlacements ==
    pc = "extract" =>
        /\ \A g \in TrueLetters : TrueCovering(g[2], g[3], g[4]) /= {}
        /\ \A c \in Cells(size) :
              FVar(c[1], c[2]) \in model
                  <=> \E ch \in Chars(words) : GVar(c[1], c[2], ch) \in model
        /\ \A c \in ModelFilled : \E d \in ModelFilled : Adjacent(c, d)

\* a model with letters, with an unfilled cell, and with a cell that two true
\* placements cover
LettersFromPlacementsWitness ==
    /\ pc = "extract"
    /\ TrueLetters /= {}
    /\ ModelFilled /= Cells(size)
    /\ \E g \in TrueLetters : Cardinality(TrueCovering(g[2], g[3], g[4])) = 2

\* the words of the across and down lists of a puzzle, one after the other
ClueWords(p) ==
    [i \in 1 .. Len(p.across_clues) |-> p.across_clues[i].word]
    \o [i \in 1 .. Len(p.down_clues) |-> p.down_clues[i].word]

\* C20: in every satisfying assignment each candidate word has at most one
\* true placement variable, over all origins and both directions; and no
\* word appears twice in the across and down lists of a returned puzzle.
WordUniqueness ==
    /\ pc = "extract" =>
          \A w \in words : Cardinality({pv \in TruePlacements : PWord(pv) = w}) <= 1
    /\ Returned =>
          \A i, j \in 1 .. Len(ClueWords(ThePuzzle)) :
              ClueWords(ThePuzzle)[i] = ClueWords(ThePuzzle)[j] => i = j

\* a model that places, across and down, words that have other placements in
\* the grid
WordUniquenessWitness ==
    /\ pc = "extract"
    /\ \E pv \in TruePlacements :
          /\ Cardinality(WordPlacements(PWord(pv), size)) >= 4
          /\ \E other \in TruePlacements : PHoriz(other) /= PHoriz(pv)

\* the true placement variables of one orientation
TrueOriented(horizontal) == {pv \in TruePlacements : PHoriz(pv) = horizontal}

\* the orientation part: three true placements of an orientation that has
\* three placement variables, and three entries each way in a returned puzzle
ThreeEachWay ==
    /\ pc = "extract" =>
        /\ Cardinality(HorizPlacements(words, size)) >= 3
              => Cardinality(TrueOriented(TRUE)) >= 3
        /\ Cardinality(VertPlacements(words, size)) >= 3
              => Cardinality(TrueOriented(FALSE)) >= 3
    /\ Returned =>
        /\ Len(ThePuzzle.across_clues) >= 3
        /\ Len(ThePuzzle.down_clues) >= 3

\* a call with one to five candidate words that the backend answers ends
\* with Unsat
OneToFiveIsUnsat ==
    (pc = "done" /\ words /= {} /\ Cardinality(words) < 6 /\ outcome /= "SolverError")
        => outcome = "Unsat"

\* C21: whenever an orientation has at least three placement variables, every
\* satisfying assignment has at least three true placements of it; hence
\* every returned puzzle has at least 3 across and 3 down entries, and a call
\* whose candidate set holds fewer than 6 words that fit the grid always ends
\* with Unsat.
OrientationStrengthening ==
    /\ ThreeEachWay
    /\ (pc = "done" /\ Cardinality(words) < 6 /\ outcome /= "SolverError")
          => outcome = "Unsat"

\* K_quality = max(20, floor(0.4 N^2))
KQuality(n) == Max2(20, (4 * n * n) \div 10)

\* the quality call encode makes for the words and the size of the call
TheQualityCalls == QualityCalls(words, size, TargetQuality(size))

\* C22: the threshold handed to the at-least-k encoding over all placement
\* variables is exactly floor(K_quality / 10), K_quality = max(20,
\* floor(0.4 N^2)) (2 for N = 7 and for N = 3), so that the quality
\* constraint excludes the assignments with fewer than floor(K_quality / 10)
\* true placements.
QualityThreshold ==
    /\ pc \in {"solve", "extract"} =>
        \A c \in TheQualityCalls : c.k = KQuality(size) \div 10
    /\ (pc = "extract" /\ TheQualityCalls /= {}) =>
        Cardinality(TruePlacements) >= KQuality(size) \div 10

\* the call made on its own
TheCall == counter[1]

\* the inputs true in the model
TrueInputs == {i \in 1 .. TheCall.n : XVar(i) \in model}

\* aux[i][j] of the call is true in the model
AuxTrue(i, j) == AuxVar("direct", i, j) \in model

\* C23: for n inputs and a threshold k, 1 <= k <= n, an assignment to the
\* inputs extends to a model of the clauses of at_least_k (the asserted
\* aux[n][k] included) if and only if at least k inputs are true; every
\* defined aux[i][j], 0 <= j <= min(i, k), equals "at least j of the first i
\* inputs are true", and aux[i][j] <=> aux[i-1][j] \/ (aux[i-1][j-1] /\ x_i).
SequentialCounter ==
    (counter /= None /\ TheCall.k >= 1 /\ TheCall.k <= TheCall.n) =>
        LET n == TheCall.n
            k == TheCall.k
        IN  /\ Cardinality(TrueInputs) >= k
            /\ \A S \in SUBSET (1 .. n) :
                  Cardinality(S) >= k =>
                      \E T \in DirectCounterModels(n, k) :
                          {i \in 1 .. n : XVar(i) \in T} = S
            /\ k >= 2 =>
                /\ AuxTrue(0, 0)
                /\ \A i \in 1 .. n : \A j \in 0 .. Min2(i, k) :
                      /\ AuxTrue(i, j) <=> Cardinality({m \in TrueInputs : m <= i}) >= j
                      /\ j >= 1 =>
                            (AuxTrue(i, j) <=>
                                \/ (j <= i - 1 /\ AuxTrue(i - 1, j))
                                \/ (AuxTrue(i - 1, j - 1) /\ XVar(i) \in model))

\* C23 witness: a model of at_least_k over four inputs with the threshold 3
\* in which exactly three inputs are true, the last one false
SequentialCounterWitness ==
    /\ counter /= None
    /\ TheCall.n = 4
    /\ TheCall.k = 3
    /\ TrueInputs = {1, 2, 3}
    /\ AuxTrue(3, 3)
    /\ AuxTrue(4, 3)

\* the filled cells of the model that come first in reading order
FirstFilled == {c \in ModelFilled : \A d \in ModelFilled : ~RowMajorBefore(d, c)}

\* C24: in every satisfying assignment anchorRow(y) holds iff row y has a
\* filled cell and no earlier row has one, anchor(x, y) holds iff (x, y) is the
\* first filled cell in reading order, and r(x, y, 0) holds iff (x, y) is that
\* anchor; so there is exactly one anchor whenever some cell is filled.
AnchorSelection ==
    pc \in {"model", "extract"} =>
        /\ \A y \in 0 .. size - 1 :
              RowVar(y) \in model <=>
                  /\ \E c \in ModelFilled : c[2] = y
                  /\ \A c \in ModelFilled : c[2] >= y
        /\ ModelAnchors = FirstFilled
        /\ \A c \in Cells(size) :
              ReachVar(c[1], c[2], 0) \in model <=> c \in FirstFilled
        /\ ModelFilled /= {} => Cardinality(ModelAnchors) = 1

\* what does hold of the anchor: one filled cell, the only start of its row
\* and of the grid, in the one row marked, and r(x, y, 0) is set at it alone
AnchorIsSomeFilledCell ==
    (pc \in {"model", "extract"} /\ ModelFilled /= {}) =>
        /\ Cardinality(ModelAnchors) = 1
        /\ ModelAnchors \subseteq ModelFilled
        /\ \A c \in ModelAnchors : \A y \in 0 .. size - 1 : RowVar(y) \in model <=> y = c[2]
        /\ \A c \in Cells(size) :
              ReachVar(c[1], c[2], 0) \in model <=> c \in ModelAnchors

\* D = min(20, (N + 1)^2 / 2 - 1)
CapD(n) == Min2(20, ((n + 1) * (n + 1)) \div 2 - 1)

\* the cells of filled within d steps of the cells reached, going through
\* filled cells
RECURSIVE Within(_, _, _)
Within(reached, filled, d) ==
    IF d = 0 THEN reached
    ELSE Within({c \in filled : c \in reached \/ \E e \in reached : Adjacent(c, e)},
                filled, d - 1)

\* C25 as stated: with the depth capped at D = min(20, (N + 1)^2 / 2 - 1) and
\* D smaller than the path length a filled region may need, the formula
\* admits satisfying assignments whose filled cells are not a single
\* 4-connected component.
DiameterCapAdmitsDisconnected ==
    \E answer \in CapTable :
        \E T \in answer.models :
            LET filled == {c \in Cells(CapGrid.size) : FVar(c[1], c[2]) \in T}
            IN  \E a \in filled : Flood({a}, filled) /= filled

\* C25, amended: the cap admits no disconnected assignment.  In every
\* satisfying assignment every filled cell is within D steps of the anchor,
\* going through filled cells, so the filled cells are one component; and a
\* region that has no model has no cell from which the others are within D
\* steps: what the cap excludes are connected regions that need more, such as
\* a path of 42 cells.
DiameterCapExcludes ==
    /\ pc = "capped" =>
        /\ Cardinality(ModelAnchors) = 1
        /\ Within(ModelAnchors, ModelFilled, CapD(size)) = ModelFilled
        /\ Flood(ModelAnchors, ModelFilled) = ModelFilled
    /\ pc = "uncapped" =>
        \A a \in ModelFilled : Within({a}, ModelFilled, CapD(size)) /= ModelFilled

\* C25 witness: the path of 42 cells, one component, has no model: from none
\* of its cells are the others within D = 20 steps
DiameterCapExcludesWitness ==
    /\ pc = "uncapped"
    /\ ModelFilled = SnakePrefix(42)
    /\ \A a \in ModelFilled : Flood({a}, ModelFilled) = ModelFilled

\* the headword of a line of the text and the key the normalization gives it
Headword(line) == Trim(SplitTwoSpaces(Trim(line))[1])

NormalizedKey(line) == ToUppercase(TrimEndDigits(RemoveHyphens(Headword(line))))

\* the line is an entry line: it begins with a capital, has a headword and a
\* definition separated by two spaces, and the definition is no reference
EntryLine(line) ==
    /\ Trim(line) /= <<>>
    /\ IsUppercase(Trim(line)[1]) /\ IsAlphabetic(Trim(line)[1])
    /\ Len(SplitTwoSpaces(Trim(line))) = 2
    /\ ~IsReference(Trim(SplitTwoSpaces(Trim(line))[2]))

\* C26: a headword made of letters, hyphens and trailing ASCII digits is
\* normalized by removing the hyphens and the trailing digits and
\* uppercasing, and the entry is stored under the normalized key; only
\* headwords that still contain a non-letter after normalization are
\* rejected.
HeadwordNormalization ==
    \A line \in dict.text :
        (/\ EntryLine(line)
         /\ NormalizedKey(line) /= <<>>
         /\ \A j \in DOMAIN NormalizedKey(line) : IsAlphabetic(NormalizedKey(line)[j]))
        => NormalizedKey(line) \in DOMAIN dict.entries

\* C27: when a random seed is supplied, the word-selection shuffle is driven
\* by it, so two runs with the same seed, lexicon and grid size offer the
\* same candidate word list to the encoder.
SeededReproducibility ==
    \A a \in DOMAIN seeded : \A b \in DOMAIN seeded :
        (/\ seeded[a].seed /= None
         /\ seeded[a].seed = seeded[b].seed
         /\ seeded[a].all_words = seeded[b].all_words
         /\ seeded[a].size = seeded[b].size)
        => seeded[a].words = seeded[b].words

\* the escape sequence of one character
EscapeOf(c) ==
    IF c = "\\" THEN <<"\\", "t", "e", "x", "t", "b", "a", "c", "k", "s", "l", "a", "s", "h", "{", "}">>
    ELSE IF c = "&" THEN <<"\\", "&">>
    ELSE IF c = "%" THEN <<"\\", "%">>
    ELSE IF c = "$" THEN <<"\\", "$">>
    ELSE IF c = "#" THEN <<"\\", "#">>
    ELSE IF c = "_" THEN <<"\\", "_">>
    ELSE IF c = "{" THEN <<"\\", "{">>
    ELSE IF c = "}" THEN <<"\\", "}">>
    ELSE IF c = "~" THEN <<"\\", "t", "e", "x", "t", "a", "s", "c", "i", "i", "t", "i", "l", "d", "e", "{", "}">>
    ELSE IF c = "^" THEN <<"\\", "t", "e", "x", "t", "a", "s", "c", "i", "i", "c", "i", "r", "c", "u", "m", "{", "}">>
    ELSE <<c>>

\* the concatenation of the escape sequences of the characters of s
RECURSIVE EscapeEach(_)
EscapeEach(s) == IF s = <<>> THEN <<>> ELSE EscapeOf(Head(s)) \o EscapeEach(Tail(s))

\* C28: escape_latex acts character by character: each LaTeX special
\* character of the input is replaced by its own escape sequence and every
\* other character is copied unchanged, so the output is the concatenation
\* of the per-character images and no character introduced by one escape is
\* escaped again.
EscapeCharacterwise ==
    latex /= None => latex[1].output = EscapeEach(latex[1].input)

\* the takes of the log that found an encoding
Takes == {i \in DOMAIN api.log : api.log[i].op = "take" /\ api.log[i].id /= 0}

\* the callers whose solve_problem has returned
Solved == {t \in Callers : api.caller[t].call = "solve_problem" /\ api.caller[t].pc = "idle"}

\* C29: under any sequence of initialize / encode_problem / solve_problem
\* calls, solve_problem can succeed only if an encode_problem completed
\* after the previous solve_problem; solve_problem with no stored encoding
\* returns the error "No encoded problem - call encode_problem first"; and
\* solve_problem always clears the stored encoding, also when solving fails,
\* so each encoding is solved at most once and a second encode_problem
\* before solving replaces the first.  In the log, a take that finds an
\* encoding comes directly after the store of that encoding; a caller gets
\* the error exactly when its take found nothing; ENCODER_STATE holds the
\* last encoding stored if no take came after it, and None otherwise; no
\* encoding is taken twice.
StepProtocol ==
    /\ \A i \in Takes : i > 1 /\ api.log[i - 1] = [op |-> "store", id |-> api.log[i].id]
    /\ \A t \in Solved :
          /\ api.caller[t].result = "puzzle" => api.caller[t].taken[1] \in {api.log[i].id : i \in Takes}
          /\ api.caller[t].result = NoEncodedProblem <=> api.caller[t].taken = Some(0)
    /\ api.state = IF api.log = <<>> \/ api.log[Len(api.log)].op = "take" THEN None
                   ELSE Some(api.log[Len(api.log)].id)
    /\ \A i \in Takes : \A j \in Takes : api.log[i].id = api.log[j].id => i = j

\* C29 witness: an encoding was stored and taken, its solving failed, and the
\* next solve_problem found no encoding
StepProtocolWitness ==
    /\ Len(api.log) = 3
    /\ api.log[1].op = "store" /\ api.log[2] = [op |-> "take", id |-> api.log[1].id]
    /\ api.log[3] = [op |-> "take", id |-> 0]
    /\ \E t \in Solved : api.caller[t].result = "Solver failed"
    /\ \E t \in Solved : api.caller[t].result = NoEncodedProblem
    /\ api.state = None

\* caller t holds DICTIONARY and waits for ENCODER_STATE
WaitsForState(t) ==
    /\ api.dict_owner = t
    /\ api.caller[t].call = "encode_problem" /\ api.caller[t].pc = "encoded"
    /\ api.state_owner \notin {0, t}

\* caller t holds ENCODER_STATE and waits for DICTIONARY
WaitsForDictionary(t) ==
    /\ api.state_owner = t
    /\ api.caller[t].call = "solve_problem" /\ api.caller[t].pc = "taken"
    /\ api.dict_owner \notin {0, t}

\* C30: under every interleaving of concurrent encode_problem, solve_problem,
\* generate_crossword and estimate_problem_size calls, each call acquires the
\* DICTIONARY and ENCODER_STATE locks it needs and returns; no reachable
\* state has one call holding DICTIONARY while waiting for ENCODER_STATE and
\* another holding ENCODER_STATE while waiting for DICTIONARY.
LockOrder ==
    ~\E a \in Callers : \E b \in Callers : WaitsForState(a) /\ WaitsForDictionary(b)

====
